---- MODULE Spec2Model ----
(***************************************************************************)
(* FretScout: listing identity (fretscout/listing_identity.py),            *)
(* deduplication (fretscout/dedup.py), valuation (fretscout/valuation.py), *)
(* alert matching (fretscout/alerts.py), the stages of the pipeline on     *)
(* objects (app.py), the eBay token cache (fretscout/ebay_auth.py), the    *)
(* retry loop of the eBay search request (fretscout/sources/ebay.py) and   *)
(* sorting (fretscout/sort_filter.py).                                     *)
(*                                                                         *)
(* Python strings are sequences of one-character strings, so that          *)
(* stripping, lowercasing, URL splitting, query parsing and re-encoding    *)
(* are computed character by character as the code computes them.          *)
(* None is the one-element sequence <<"None">>, which no Python string     *)
(* equals (its element is not a single character).  An optional number is  *)
(* <<>> (None) or <<n>>.                                                   *)
(***************************************************************************)
EXTENDS Integers, Sequences, FiniteSets, TLC

VARIABLES
    iIn,      \* identity: the list handed to ensure_listing_ids
    iOut,     \* identity: the list it returned
    iPrev,    \* identity: the list returned by the previous application
    iPc,      \* identity: "start" | "ensured" | "again"
    dIn,      \* dedup: the list handed to dedupe_listings
    dOut,     \* dedup: the list it returned
    dPrev,    \* dedup: the list returned by the previous application
    dPc,      \* dedup: "start" | "deduped" | "again"
    vIn,      \* valuation: the batch handed to score_listings
    vOut,     \* valuation: the list it returned (<<>> when it raised)
    vErr,     \* valuation: "none" or the exception it raised
    vAlt,     \* valuation: the same batch with other shipping values
    vAltOut,  \* valuation: the list returned for vAlt
    vAltErr,  \* valuation: "none" or the exception raised for vAlt
    vPc,      \* valuation: "start" | "scored" | "compared"
    aAlerts,  \* alerts: the saved alerts handed to generate_alert_events
    aListings,\* alerts: the listings handed to it
    aTable,   \* alerts: the rows of the alert_events table
    aBefore,  \* alerts: the rows of the table when the last call began
    aOut,     \* alerts: the list the last call returned (<<>> when it raised)
    aErr,     \* alerts: "none" or the exception the last call raised
    aFail,    \* alerts: for each call made, the insert that storage refused, or 0
    aPc,      \* alerts: "start" | "generated" | "again"
    hHeap,    \* pipeline: the Listing objects, by address
    hList,    \* pipeline: the addresses in the list the last stage returned
    hArg,     \* pipeline: the list handed to the last stage, after the call
    hArg0,    \* pipeline: the list handed to the last stage, before the call
    hHeap0,   \* pipeline: the Listing objects before the call
    hErr,     \* pipeline: "none" or the exception the last stage raised
    hPc,      \* pipeline: "raw" | "identified" | "deduped" | "scored"
    tNow,     \* tokens: time.time(), in seconds
    tCache,   \* tokens: _token_cache
    tDisk,    \* tokens: the payload of the disk cache file, <<>> without file
    tMinted,  \* tokens: the entries the server minted, in their order
    tHeld,    \* tokens: for each cache key, the token a caller last got
    tCleared, \* tokens: the keys whose token was got before the last clearing
    tLast,    \* tokens: the call just made (<<>> after another step)
    tSteps,   \* tokens: the steps taken
    rAttempt, \* search request: the attempts made
    rOutcomes,\* search request: what urlopen did in each attempt
    rLastError, \* search request: last_error (<<>> is None)
    rSlept,   \* search request: the backoffs slept, in milliseconds
    rResult,  \* search request: "none", "body" or the exception raised
    rPc,      \* search request: "loop" | "after" | "done"
    sIn,      \* sorting: the list handed to sort_listings
    sMode,    \* sorting: sort_mode
    sOut,     \* sorting: the list it returned
    sPc       \* sorting: "start" | "sorted"

identVars == <<iIn, iOut, iPrev, iPc>>
dedupVars == <<dIn, dOut, dPrev, dPc>>
scoreVars == <<vIn, vOut, vErr, vAlt, vAltOut, vAltErr, vPc>>
alertVars == <<aAlerts, aListings, aTable, aBefore, aOut, aErr, aFail, aPc>>
pipeVars == <<hHeap, hList, hArg, hArg0, hHeap0, hErr, hPc>>
coreVars == <<identVars, dedupVars, scoreVars, alertVars>>
tokenVars == <<tNow, tCache, tDisk, tMinted, tHeld, tCleared, tLast, tSteps>>
retryVars == <<rAttempt, rOutcomes, rLastError, rSlept, rResult, rPc>>
sortVars == <<sIn, sMode, sOut, sPc>>
extraVars == <<pipeVars, tokenVars, retryVars, sortVars>>
notPipeVars == <<coreVars, tokenVars, retryVars, sortVars>>
notTokenVars == <<coreVars, pipeVars, retryVars, sortVars>>
notRetryVars == <<coreVars, pipeVars, tokenVars, sortVars>>
notSortVars == <<coreVars, pipeVars, tokenVars, retryVars>>
vars == <<coreVars, extraVars>>

(***************************************************************************)
(* Bounds of the model.                                                    *)
(***************************************************************************)
MaxParams == 2    \* query parameters per URL drawn for the identity inputs
MaxBatch == 3     \* listings per batch handed to dedupe_listings
MaxScoreBatch == 4    \* listings per batch handed to score_listings
MaxAlerts == 2    \* alerts, and listings, handed to generate_alert_events
MaxTokenSteps == 3    \* calls of get_ebay_access_token, clearings and passages of time

(***************************************************************************)
(* Python values and str methods.                                          *)
(***************************************************************************)
None == <<"None">>
NoNumber == <<>>

UpperLetters == <<"A","B","C","D","E","F","G","H","I","J","K","L","M",
                  "N","O","P","Q","R","S","T","U","V","W","X","Y","Z">>
LowerLetters == <<"a","b","c","d","e","f","g","h","i","j","k","l","m",
                  "n","o","p","q","r","s","t","u","v","w","x","y","z">>
Digits == <<"0","1","2","3","4","5","6","7","8","9">>

Range(s) == {s[i] : i \in 1..Len(s)}

\* str.lower() on one character
LowerChar(c) ==
    IF \E i \in 1..26 : UpperLetters[i] = c
    THEN LowerLetters[CHOOSE i \in 1..26 : UpperLetters[i] = c]
    ELSE c

\* str.lower()
Lower(s) == [i \in 1..Len(s) |-> LowerChar(s[i])]

IsSpace(c) == c \in {" ", "\t", "\n", "\r"}

\* str.strip()
Strip(s) ==
    LET keep == {i \in 1..Len(s) : ~IsSpace(s[i])}
    IN  IF keep = {} THEN <<>>
        ELSE LET lo == CHOOSE i \in keep : \A j \in keep : i <= j
                 hi == CHOOSE i \in keep : \A j \in keep : j <= i
             IN  SubSeq(s, lo, hi)

\* str.startswith(p)
StartsWith(s, p) == Len(s) >= Len(p) /\ SubSeq(s, 1, Len(p)) = p

\* str.find(c): the first index of character c, 0 when absent (Python's -1)
Find(s, c) ==
    IF \E i \in 1..Len(s) : s[i] = c
    THEN CHOOSE i \in 1..Len(s) : s[i] = c /\ \A j \in 1..(i-1) : s[j] # c
    ELSE 0

\* s[k:] with a 1-based k
From(s, k) == SubSeq(s, k, Len(s))

\* str.split(c): the list of the pieces between occurrences of character c
RECURSIVE Split(_, _)
Split(s, c) ==
    LET i == Find(s, c)
    IN  IF i = 0 THEN <<s>>
        ELSE <<SubSeq(s, 1, i-1)>> \o Split(From(s, i+1), c)

\* sep.join(parts)
RECURSIVE Join(_, _)
Join(parts, sep) ==
    IF parts = <<>> THEN <<>>
    ELSE IF Len(parts) = 1 THEN parts[1]
    ELSE parts[1] \o sep \o Join(Tail(parts), sep)

\* truthiness of an Optional[str]: neither None nor ""
Truthy(v) == v # None /\ v # <<>>

(***************************************************************************)
(* urllib.parse as _normalize_url uses it: urlsplit, parse_qsl, urlencode  *)
(* and urlunsplit, over the printable ASCII characters.                    *)
(***************************************************************************)
\* the printable ASCII characters, code 32 at index 1 (the double quote, the
\* backslash and the grave accent by their code points)
Ascii == <<" ","!","U+0022","#","$","%","&","'","(",")","*","+",",","-",".","/",
           "0","1","2","3","4","5","6","7","8","9",":",";","<","=",">","?",
           "@","A","B","C","D","E","F","G","H","I","J","K","L","M","N","O",
           "P","Q","R","S","T","U","V","W","X","Y","Z","[","U+005C","]","^","_",
           "U+0060","a","b","c","d","e","f","g","h","i","j","k","l","m","n","o",
           "p","q","r","s","t","u","v","w","x","y","z","{","|","}","~">>

\* U+FFFD, what bytes.decode("utf-8", "replace") gives for a byte that is not
\* valid UTF-8
ReplacementChar == "U+FFFD"

HexDigits == <<"0","1","2","3","4","5","6","7","8","9","A","B","C","D","E","F">>

IsHex(c) == \E i \in 1..16 : HexDigits[i] = c \/ LowerChar(HexDigits[i]) = c

HexVal(c) ==
    (CHOOSE i \in 1..16 : HexDigits[i] = c \/ LowerChar(HexDigits[i]) = c) - 1

\* the character of one decoded byte: printable ASCII as it is, a lone byte
\* above 127 as U+FFFD, a control byte as its own token
CharOfByte(n) ==
    IF n >= 32 /\ n <= 126 THEN Ascii[n - 31]
    ELSE IF n >= 128 THEN ReplacementChar
    ELSE IF n = 9 THEN "\t"
    ELSE IF n = 10 THEN "\n"
    ELSE IF n = 13 THEN "\r"
    ELSE "U+00" \o HexDigits[(n \div 16) + 1] \o HexDigits[(n % 16) + 1]

\* urllib.parse.unquote: every %XX with two hex digits becomes its character,
\* anything else is kept
RECURSIVE Unquote(_)
Unquote(s) ==
    IF s = <<>> THEN <<>>
    ELSE IF s[1] = "%" /\ Len(s) >= 3 /\ IsHex(s[2]) /\ IsHex(s[3])
         THEN <<CharOfByte(16 * HexVal(s[2]) + HexVal(s[3]))>>
                  \o Unquote(From(s, 4))
         ELSE <<s[1]>> \o Unquote(Tail(s))

\* name.replace(plus, space) followed by unquote, as parse_qsl decodes a field
UnquotePlus(s) ==
    Unquote([i \in 1..Len(s) |-> IF s[i] = "+" THEN " " ELSE s[i]])

\* characters quote never escapes (_ALWAYS_SAFE)
AlwaysSafe == Range(UpperLetters) \cup Range(LowerLetters) \cup Range(Digits)
                  \cup {"_", ".", "-", "~"}

\* urllib.parse.quote_plus on one character
QuotePlusChar(c) ==
    IF c \in AlwaysSafe THEN <<c>>
    ELSE IF c = " " THEN <<"+">>
    ELSE IF c = ReplacementChar
         THEN <<"%","E","F","%","B","F","%","B","D">>
    ELSE LET n == 31 + (CHOOSE i \in 1..Len(Ascii) : Ascii[i] = c)
         IN  <<"%", HexDigits[(n \div 16) + 1], HexDigits[(n % 16) + 1]>>

\* urllib.parse.quote_plus
RECURSIVE QuotePlus(_)
QuotePlus(s) ==
    IF s = <<>> THEN <<>> ELSE QuotePlusChar(s[1]) \o QuotePlus(Tail(s))

SchemeChars == Range(UpperLetters) \cup Range(LowerLetters) \cup Range(Digits)
                   \cup {"+", "-", "."}

IsAsciiAlpha(c) == c \in Range(UpperLetters) \cup Range(LowerLetters)

\* schemes for which urlunsplit writes "//" although the netloc is empty
UsesNetloc == { <<>>, <<"h","t","t","p">>, <<"h","t","t","p","s">>,
                <<"f","t","p">>, <<"f","i","l","e">>, <<"w","s">> }

\* the first index >= 1 of a character of cs in s, Len(s)+1 when there is none
FirstOf(s, cs) ==
    IF \E i \in 1..Len(s) : s[i] \in cs
    THEN CHOOSE i \in 1..Len(s) : s[i] \in cs /\ \A j \in 1..(i-1) : s[j] \notin cs
    ELSE Len(s) + 1

\* urlsplit, last step: what is left is split at the first "?" into path and
\* query
SplitQuery(scheme, netloc, rest, fragment) ==
    LET q == Find(rest, "?")
    IN  [scheme |-> scheme, netloc |-> netloc,
         path |-> IF q > 0 THEN SubSeq(rest, 1, q-1) ELSE rest,
         query |-> IF q > 0 THEN From(rest, q+1) ELSE <<>>,
         fragment |-> fragment]

\* urlsplit, third step: the fragment is what follows the first "#"
SplitFragment(scheme, netloc, rest) ==
    LET h == Find(rest, "#")
    IN  IF h > 0
        THEN SplitQuery(scheme, netloc, SubSeq(rest, 1, h-1), From(rest, h+1))
        ELSE SplitQuery(scheme, netloc, rest, <<>>)

\* urlsplit, second step (_splitnetloc): after "//" the netloc runs up to the
\* first of "/", "?" and "#"
SplitNetloc(scheme, rest) ==
    IF StartsWith(rest, <<"/","/">>)
    THEN LET afterSlashes == From(rest, 3)
             delim == FirstOf(afterSlashes, {"/", "?", "#"})
         IN  SplitFragment(scheme, SubSeq(afterSlashes, 1, delim-1),
                           From(afterSlashes, delim))
    ELSE SplitFragment(scheme, <<>>, rest)

\* urllib.parse.urlsplit(url): [scheme, netloc, path, query, fragment]; the
\* scheme is what stands before the first ":" when it starts with a letter
\* and holds scheme characters only
urlsplit(url) ==
    LET i == Find(url, ":")
    IN  IF /\ i > 1
           /\ IsAsciiAlpha(url[1])
           /\ \A j \in 1..(i-1) : url[j] \in SchemeChars
        THEN SplitNetloc(Lower(SubSeq(url, 1, i-1)), From(url, i+1))
        ELSE SplitNetloc(<<>>, url)

\* urllib.parse.urlunsplit((scheme, netloc, path, query, fragment))
urlunsplit(scheme, netloc, path, query, fragment) ==
    LET u1 == IF netloc # <<>> \/ (scheme # <<>> /\ scheme \in UsesNetloc
                                     /\ ~StartsWith(path, <<"/","/">>))
              THEN <<"/","/">> \o netloc
                     \o (IF path # <<>> /\ path[1] # "/" THEN <<"/">> ELSE <<>>)
                     \o path
              ELSE path
        u2 == IF scheme # <<>> THEN scheme \o <<":">> \o u1 ELSE u1
        u3 == IF query # <<>> THEN u2 \o <<"?">> \o query ELSE u2
    IN  IF fragment # <<>> THEN u3 \o <<"#">> \o fragment ELSE u3

\* one field of a query string as parse_qsl(keep_blank_values=True) reads it
ParseField(nv) ==
    LET e == Find(nv, "=")
    IN  IF e = 0 THEN <<UnquotePlus(nv), <<>>>>
        ELSE <<UnquotePlus(SubSeq(nv, 1, e-1)), UnquotePlus(From(nv, e+1))>>

\* urllib.parse.parse_qsl(qs, keep_blank_values=True): the (key, value) pairs
parse_qsl(qs) ==
    LET fields == IF qs = <<>> THEN <<>>
                  ELSE SelectSeq(Split(qs, "&"), LAMBDA f : f # <<>>)
    IN  [i \in 1..Len(fields) |-> ParseField(fields[i])]

\* urllib.parse.urlencode(pairs, doseq=True) for str values
urlencode(pairs) ==
    Join([i \in 1..Len(pairs) |->
              QuotePlus(pairs[i][1]) \o <<"=">> \o QuotePlus(pairs[i][2])],
         <<"&">>)

(***************************************************************************)
(* fretscout/listing_identity.py                                           *)
(***************************************************************************)
\* re.sub(r"\s+", " ", s): every run of whitespace becomes one space
RECURSIVE CollapseSpace(_)
CollapseSpace(s) ==
    IF s = <<>> THEN <<>>
    ELSE IF IsSpace(s[1])
         THEN IF Len(s) >= 2 /\ IsSpace(s[2]) THEN CollapseSpace(Tail(s))
              ELSE <<" ">> \o CollapseSpace(Tail(s))
         ELSE <<s[1]>> \o CollapseSpace(Tail(s))

normalize_text(value) == CollapseSpace(Lower(Strip(value)))

\* re.sub(r"/{2,}", "/", path): every run of slashes becomes one slash
RECURSIVE CollapseSlashes(_)
CollapseSlashes(s) ==
    IF s = <<>> THEN <<>>
    ELSE IF s[1] = "/" /\ Len(s) >= 2 /\ s[2] = "/" THEN CollapseSlashes(Tail(s))
    ELSE <<s[1]>> \o CollapseSlashes(Tail(s))

\* path.rstrip("/")
RECURSIVE RStripSlash(_)
RStripSlash(s) ==
    IF s # <<>> /\ s[Len(s)] = "/" THEN RStripSlash(SubSeq(s, 1, Len(s) - 1))
    ELSE s

TrackingKeys == { <<"g","c","l","i","d">>, <<"f","b","c","l","i","d">>,
                  <<"m","c","_","c","i","d">>, <<"m","c","_","e","i","d">>,
                  <<"y","c","l","i","d">> }

\* the key compared as written, not lowercased
IsTrackingKeyCaseSensitive(key) ==
    StartsWith(key, <<"u","t","m","_">>) \/ key \in TrackingKeys

\* the test of the filter loop: the pair is dropped
IsTrackingKey(key) ==
    LET lowered == Lower(key)
    IN  StartsWith(lowered, <<"u","t","m","_">>) \/ lowered \in TrackingKeys

\* the path with runs of slashes collapsed and the trailing slashes removed,
\* unless it is "/"
NormalizePath(path) ==
    LET collapsed == CollapseSlashes(path)
    IN  IF collapsed # <<>> /\ collapsed[Len(collapsed)] = "/"
           /\ collapsed # <<"/">>
        THEN RStripSlash(collapsed) ELSE collapsed

\* the filter loop over the parsed query
FilteredPairs(query_pairs) ==
    SelectSeq(query_pairs, LAMBDA kv : ~IsTrackingKey(kv[1]))

\* the parts of a split URL put together again: scheme and netloc lowercased,
\* path normalized, query filtered and encoded again, no fragment
NormalizeParts(parts) ==
    urlunsplit(Lower(parts.scheme), Lower(parts.netloc), NormalizePath(parts.path),
               urlencode(FilteredPairs(parse_qsl(parts.query))), <<>>)

\* the whole URL lowercased, path and query included
NormalizeUrlLowerAll(value) == NormalizeParts(urlsplit(Lower(Strip(value))))

normalize_url(value) == NormalizeParts(urlsplit(Strip(value)))

\* the characters of a string as one TLC string
RECURSIVE Flatten(_)
Flatten(s) == IF s = <<>> THEN "" ELSE s[1] \o Flatten(Tail(s))

\* hashlib.sha256(value).hexdigest()[:16]: the 16 hex characters are one
\* opaque element, a different one for every different value (no collision)
hash_text(value) == << "sha256[:16](" \o Flatten(value) \o ")" >>

\* the decimal digits of a natural number
RECURSIVE NatStr(_)
NatStr(n) ==
    IF n < 10 THEN <<Digits[n + 1]>>
    ELSE NatStr(n \div 10) \o <<Digits[(n % 10) + 1]>>

\* str(x) of a float with an integral value, as price is Optional[float]
FloatStr(n) == NatStr(n) \o <<".", "0">>

\* one part of the fingerprint
FingerprintPart(part) ==
    IF part = None THEN <<>>
    ELSE IF StartsWith(part, <<"h","t","t","p">>) THEN normalize_url(part)
    ELSE normalize_text(part)

fallback_fingerprint(listing) ==
    LET parts == << listing.title, listing.source, listing.source_item_id,
                    listing.seller, listing.location, listing.condition,
                    listing.currency, listing.url >>
        price == IF listing.price = NoNumber THEN <<>>
                 ELSE FloatStr(listing.price[1])
    IN  Join([i \in 1..Len(parts) |-> FingerprintPart(parts[i])] \o <<price>>,
             <<"|">>)

\* the url rule tried before the source rule
DerivedIdUrlFirst(listing) ==
    IF Truthy(listing.url)
    THEN <<"u","r","l",":">> \o hash_text(normalize_url(listing.url))
    ELSE IF Truthy(listing.source) /\ Truthy(listing.source_item_id)
    THEN listing.source \o <<":">> \o listing.source_item_id
    ELSE <<"h","a","s","h",":">> \o hash_text(fallback_fingerprint(listing))

\* the source rule taken whenever source_item_id is set, source set or not
DerivedIdItemIdOnly(listing) ==
    IF Truthy(listing.source_item_id)
    THEN listing.source \o <<":">> \o listing.source_item_id
    ELSE IF Truthy(listing.url)
    THEN <<"u","r","l",":">> \o hash_text(normalize_url(listing.url))
    ELSE <<"h","a","s","h",":">> \o hash_text(fallback_fingerprint(listing))

\* the three derivation rules, first applicable first
DerivedId(listing) ==
    IF Truthy(listing.source) /\ Truthy(listing.source_item_id)
    THEN listing.source \o <<":">> \o listing.source_item_id
    ELSE IF Truthy(listing.url)
    THEN <<"u","r","l",":">> \o hash_text(normalize_url(listing.url))
    ELSE <<"h","a","s","h",":">> \o hash_text(fallback_fingerprint(listing))

\* listing.listing_id and listing.listing_id.strip()
HasListingId(listing) ==
    Truthy(listing.listing_id) /\ Strip(listing.listing_id) # <<>>

\* no fallback rule: a listing without source, item id and url is returned
\* as it came
EnsureListingIdNoFallback(listing) ==
    IF HasListingId(listing) THEN listing
    ELSE IF Truthy(listing.source) /\ Truthy(listing.source_item_id)
    THEN [listing EXCEPT !.listing_id =
              listing.source \o <<":">> \o listing.source_item_id]
    ELSE IF Truthy(listing.url)
    THEN [listing EXCEPT !.listing_id =
              <<"u","r","l",":">> \o hash_text(normalize_url(listing.url))]
    ELSE listing

\* the id derived also when the listing carries one
EnsureListingIdAlwaysDerive(listing) ==
    [listing EXCEPT !.listing_id = DerivedId(listing)]

ensure_listing_id(listing) ==
    IF HasListingId(listing) THEN listing
    ELSE [listing EXCEPT !.listing_id = DerivedId(listing)]

ensure_listing_ids(listings) ==
    [i \in 1..Len(listings) |-> ensure_listing_id(listings[i])]

(***************************************************************************)
(* fretscout/dedup.py                                                      *)
(***************************************************************************)
\* value not in (None, "")
Populated(value) == value # None /\ value # <<>>

completeness_score(listing) ==
    Cardinality({f \in {"image_url", "url", "condition", "seller", "location",
                        "currency"} : Populated(listing[f])})
        + (IF listing.price # NoNumber THEN 1 ELSE 0)

\* the state of the loop before the first listing: seen maps an id to
\* (listing, score), order lists the ids first seen
DedupeStart == [seen |-> <<>>, order |-> <<>>]

\* order.append on every listing, repeats included
DedupeStepAppendOnRepeat(acc, listing) ==
    LET listing_id == listing.listing_id
        score == completeness_score(listing)
    IN  IF listing_id \notin DOMAIN acc.seen
        THEN [seen |-> (listing_id :> <<listing, score>>) @@ acc.seen,
              order |-> Append(acc.order, listing_id)]
        ELSE IF score > acc.seen[listing_id][2]
        THEN [seen |-> (listing_id :> <<listing, score>>) @@ acc.seen,
              order |-> Append(acc.order, listing_id)]
        ELSE [acc EXCEPT !.order = Append(acc.order, listing_id)]

\* order.append also when a repeat replaces the stored candidate
DedupeStepAppendOnReplace(acc, listing) ==
    LET listing_id == listing.listing_id
        score == completeness_score(listing)
    IN  IF listing_id \notin DOMAIN acc.seen
        THEN [seen |-> (listing_id :> <<listing, score>>) @@ acc.seen,
              order |-> Append(acc.order, listing_id)]
        ELSE IF score > acc.seen[listing_id][2]
        THEN [seen |-> (listing_id :> <<listing, score>>) @@ acc.seen,
              order |-> Append(acc.order, listing_id)]
        ELSE acc

\* score >= existing_score: a tie replaces the stored candidate
DedupeStepTieReplaces(acc, listing) ==
    LET listing_id == listing.listing_id
        score == completeness_score(listing)
    IN  IF listing_id \notin DOMAIN acc.seen
        THEN [seen |-> (listing_id :> <<listing, score>>) @@ acc.seen,
              order |-> Append(acc.order, listing_id)]
        ELSE IF score >= acc.seen[listing_id][2]
        THEN [acc EXCEPT !.seen = (listing_id :> <<listing, score>>) @@ acc.seen]
        ELSE acc

\* a replacing repeat moves its id to the end of order
DedupeStepMoveToEnd(acc, listing) ==
    LET listing_id == listing.listing_id
        score == completeness_score(listing)
    IN  IF listing_id \notin DOMAIN acc.seen
        THEN [seen |-> (listing_id :> <<listing, score>>) @@ acc.seen,
              order |-> Append(acc.order, listing_id)]
        ELSE IF score > acc.seen[listing_id][2]
        THEN [seen |-> (listing_id :> <<listing, score>>) @@ acc.seen,
              order |-> Append(SelectSeq(acc.order, LAMBDA x : x # listing_id),
                               listing_id)]
        ELSE acc

\* a repeated id fills the price the kept listing lacks
DedupeStepMerge(acc, listing) ==
    LET listing_id == listing.listing_id
        score == completeness_score(listing)
    IN  IF listing_id \notin DOMAIN acc.seen
        THEN [seen |-> (listing_id :> <<listing, score>>) @@ acc.seen,
              order |-> Append(acc.order, listing_id)]
        ELSE IF score > acc.seen[listing_id][2]
        THEN [acc EXCEPT !.seen = (listing_id :> <<listing, score>>) @@ acc.seen]
        ELSE IF acc.seen[listing_id][1].price = NoNumber
        THEN [acc EXCEPT !.seen =
                  (listing_id :> <<[acc.seen[listing_id][1] EXCEPT
                                        !.price = listing.price],
                                   acc.seen[listing_id][2]>>) @@ acc.seen]
        ELSE acc

\* one iteration of the loop of dedupe_listings
DedupeStep(acc, listing) ==
    LET listing_id == listing.listing_id
        score == completeness_score(listing)
    IN  IF listing_id \notin DOMAIN acc.seen
        THEN [seen |-> (listing_id :> <<listing, score>>) @@ acc.seen,
              order |-> Append(acc.order, listing_id)]
        ELSE IF score > acc.seen[listing_id][2]
        THEN [acc EXCEPT !.seen = (listing_id :> <<listing, score>>) @@ acc.seen]
        ELSE acc

\* the loop of dedupe_listings from position k on
RECURSIVE DedupeLoop(_, _, _)
DedupeLoop(normalized, k, acc) ==
    IF k > Len(normalized) THEN acc
    ELSE DedupeLoop(normalized, k + 1, DedupeStep(acc, normalized[k]))

\* return [seen[listing_id][0] for listing_id in order]
DedupeResult(final) ==
    [i \in 1..Len(final.order) |-> final.seen[final.order[i]][1]]

dedupe_listings(listings) ==
    DedupeResult(DedupeLoop(ensure_listing_ids(listings), 1, DedupeStart))

(***************************************************************************)
(* Inputs of the identity functions.                                       *)
(***************************************************************************)
Listing(listing_id, source, source_item_id, title, url) ==
    [listing_id |-> listing_id, source |-> source,
     source_item_id |-> source_item_id, title |-> title, url |-> url,
     price |-> NoNumber, currency |-> None, condition |-> None,
     location |-> None, image_url |-> None, seller |-> None]

\* the pieces URLs are put together from
Schemes == { <<"h","t","t","p">>, <<"H","T","T","P">> }
Hosts == { <<"a","b">>, <<"A","b">> }
Paths == { <<>>, <<"/","p">>, <<"/","P">>, <<"/","p","/","/">> }
Fragments == { <<>>, <<"#","f">> }
Params == { <<"k","=","a","%","2","f">>,
            <<"k","=","A","%","2","f">>,
            <<"k","=","a","%","2","F">>,
            <<"u","t","m","_","s","=","1">>,
            <<"u","t","m","_","s","=","2">>,
            <<"G","c","l","i","d","=","x">> }

\* the query strings of at most MaxParams parameters
Queries == UNION { [1..n -> Params] : n \in 0..MaxParams }

UrlParts == [scheme : Schemes, host : Hosts, path : Paths, query : Queries,
             fragment : Fragments]

\* the text of a URL
UrlText(u) ==
    u.scheme \o <<":","/","/">> \o u.host \o u.path
        \o (IF u.query = <<>> THEN <<>> ELSE <<"?">> \o Join(u.query, <<"&">>))
        \o u.fragment

\* the query strings one edit away from q: one parameter replaced, removed
\* or added
QueryEdits(q) ==
    { [q EXCEPT ![i] = p] : i \in 1..Len(q), p \in Params }
        \cup { SubSeq(q, 1, i - 1) \o SubSeq(q, i + 1, Len(q)) : i \in 1..Len(q) }
        \cup (IF Len(q) < MaxParams
              THEN { SubSeq(q, 1, i) \o <<p>> \o SubSeq(q, i + 1, Len(q)) :
                         i \in 0..Len(q), p \in Params }
              ELSE {})

\* the URLs that differ from u in at most one piece
UrlVariants(u) ==
    { [u EXCEPT !.scheme = x] : x \in Schemes }
        \cup { [u EXCEPT !.host = x] : x \in Hosts }
        \cup { [u EXCEPT !.path = x] : x \in Paths }
        \cup { [u EXCEPT !.fragment = x] : x \in Fragments }
        \cup { [u EXCEPT !.query = x] : x \in QueryEdits(u.query) }

\* the URLs written with the scheme and the host in lowercase and without a
\* fragment
BaseUrls ==
    { u \in UrlParts : /\ u.scheme = Lower(u.scheme)
                       /\ u.host = Lower(u.host)
                       /\ u.fragment = <<>> }

UrlListing(u) == Listing(<<>>, <<>>, None, <<"t">>, UrlText(u))

\* listings with and without an id, a source, a source item id and a URL
FieldListings ==
    { Listing(id, source, sid, title, url) :
          id \in { <<>>, <<" ">>, <<"i","1">>, <<"i","2">> },
          source \in { <<>>, <<"e","b">> },
          sid \in { None, <<"7">> },
          title \in { <<"t">>, <<" ","T">> },
          url \in { None, <<>>, <<"h","t","t","p",":","/","/","a","b","/","p">>, <<"h","t","t","p",":","/","/","a","b","/","q">> } }

(***************************************************************************)
(* Inputs of dedupe_listings: listings whose id is blank (and derived from *)
(* source and source item id) or preset, with different fields populated.  *)
(***************************************************************************)
Profiles ==
    { [title |-> <<"t">>, price |-> NoNumber, condition |-> None, url |-> None,
       image_url |-> None, seller |-> None, location |-> None, currency |-> None],
      [title |-> <<>>, price |-> NoNumber, condition |-> None, url |-> None,
       image_url |-> None, seller |-> None, location |-> None, currency |-> None],
      [title |-> <<"t">>, price |-> <<0>>, condition |-> None, url |-> None,
       image_url |-> None, seller |-> None, location |-> None, currency |-> None],
      [title |-> <<"t">>, price |-> NoNumber, condition |-> <<"n">>, url |-> None,
       image_url |-> None, seller |-> None, location |-> None, currency |-> None],
      [title |-> <<"t">>, price |-> NoNumber, condition |-> <<>>, url |-> None,
       image_url |-> None, seller |-> <<"s">>, location |-> None, currency |-> None],
      [title |-> <<"t">>, price |-> NoNumber, condition |-> None, url |-> <<"h","t","t","p",":","/","/","a","b","/","p">>,
       image_url |-> <<"h","t","t","p",":","/","/","a","b","/","q">>, seller |-> <<"s">>, location |-> <<"l">>,
       currency |-> <<"c">>] }

DedupListings ==
    { [listing_id |-> id, source |-> <<"e","b">>, source_item_id |-> <<"7">>,
       title |-> p.title, url |-> p.url, price |-> p.price,
       currency |-> p.currency, condition |-> p.condition,
       location |-> p.location, image_url |-> p.image_url, seller |-> p.seller] :
          id \in { <<>>, <<"e","b",":","7">>, <<"x">> }, p \in Profiles }

DedupInputs == UNION { [1..n -> DedupListings] : n \in 0..MaxBatch }

(***************************************************************************)
(* The state machine: a caller hands a list to ensure_listing_ids or to    *)
(* dedupe_listings, and hands the result to the same function again.       *)
(***************************************************************************)
\* the lists handed to ensure_listing_ids: the empty list, one listing, two
\* listings, and two listings without an id or a source of which the first
\* has a URL with lowercase scheme and host and no fragment and the second a
\* URL that differs from it in at most one piece
\* no stage of the pipeline has been called on objects
IdlePipeline ==
    /\ hHeap = <<>>
    /\ hList = <<>>
    /\ hArg = <<>>
    /\ hArg0 = <<>>
    /\ hHeap0 = <<>>
    /\ hErr = "none"
    /\ hPc = "off"

\* get_ebay_access_token has not been called
IdleTokens ==
    /\ tNow = 0
    /\ tCache = <<>>
    /\ tDisk = <<>>
    /\ tMinted = <<>>
    /\ tHeld = <<>>
    /\ tCleared = {}
    /\ tLast = <<>>
    /\ tSteps = MaxTokenSteps

\* no search request has been made
IdleRetry ==
    /\ rAttempt = 0
    /\ rOutcomes = <<>>
    /\ rLastError = <<>>
    /\ rSlept = <<>>
    /\ rResult = "none"
    /\ rPc = "off"

\* sort_listings has not been called
IdleSort ==
    /\ sIn = <<>>
    /\ sMode = "none"
    /\ sOut = <<>>
    /\ sPc = "off"

IdleExtra == IdlePipeline /\ IdleTokens /\ IdleRetry /\ IdleSort

\* generate_alert_events has not been called
IdleAlerts ==
    /\ aAlerts = <<>>
    /\ aListings = <<>>
    /\ aTable = <<>>
    /\ aBefore = <<>>
    /\ aOut = <<>>
    /\ aErr = "none"
    /\ aFail = <<>>
    /\ aPc = "off"

\* score_listings has not been called
IdleValuation ==
    /\ vIn = <<>>
    /\ vOut = <<>>
    /\ vErr = "none"
    /\ vAlt = <<>>
    /\ vAltOut = <<>>
    /\ vAltErr = "none"
    /\ vPc = "off"

InitIdentity ==
    /\ \/ iIn = <<>>
       \/ \E a \in FieldListings : iIn = <<a>>
       \/ \E a \in FieldListings : \E b \in FieldListings : iIn = <<a, b>>
       \/ \E u \in BaseUrls : \E v \in UrlVariants(u) :
              iIn = <<UrlListing(u), UrlListing(v)>>
    /\ iOut = <<>>
    /\ iPrev = <<>>
    /\ iPc = "start"
    /\ dIn = <<>>
    /\ dOut = <<>>
    /\ dPrev = <<>>
    /\ dPc = "off"
    /\ IdleValuation
    /\ IdleAlerts
    /\ IdleExtra

InitDedup ==
    /\ dIn \in DedupInputs
    /\ dOut = <<>>
    /\ dPrev = <<>>
    /\ dPc = "start"
    /\ iIn = <<>>
    /\ iOut = <<>>
    /\ iPrev = <<>>
    /\ iPc = "off"
    /\ IdleValuation
    /\ IdleAlerts
    /\ IdleExtra

\* ensure_listing_ids(listings)
EnsureListingIds ==
    /\ iPc = "start"
    /\ iOut' = ensure_listing_ids(iIn)
    /\ iPc' = "ensured"
    /\ UNCHANGED <<iIn, iPrev>>
    /\ UNCHANGED <<dedupVars, scoreVars, alertVars>>
    /\ UNCHANGED extraVars

\* ensure_listing_ids on what ensure_listing_ids returned
EnsureListingIdsAgain ==
    /\ iPc = "ensured"
    /\ iPrev' = iOut
    /\ iOut' = ensure_listing_ids(iOut)
    /\ iPc' = "again"
    /\ UNCHANGED iIn
    /\ UNCHANGED <<dedupVars, scoreVars, alertVars>>
    /\ UNCHANGED extraVars

\* dedupe_listings(listings)
DedupeListings ==
    /\ dPc = "start"
    /\ dOut' = dedupe_listings(dIn)
    /\ dPc' = "deduped"
    /\ UNCHANGED <<dIn, dPrev>>
    /\ UNCHANGED <<identVars, scoreVars, alertVars>>
    /\ UNCHANGED extraVars

\* dedupe_listings on what dedupe_listings returned
DedupeListingsAgain ==
    /\ dPc = "deduped"
    /\ dPrev' = dOut
    /\ dOut' = dedupe_listings(dOut)
    /\ dPc' = "again"
    /\ UNCHANGED dIn
    /\ UNCHANGED <<identVars, scoreVars, alertVars>>
    /\ UNCHANGED extraVars

NextIdentity == EnsureListingIds \/ EnsureListingIdsAgain

NextDedup == DedupeListings \/ DedupeListingsAgain

SpecIdentity == InitIdentity /\ [][NextIdentity]_vars

SpecDedup == InitDedup /\ [][NextDedup]_vars

(***************************************************************************)
(* Claims about dedupe_listings, checked under SpecDedup.                  *)
(***************************************************************************)
\* the number of the seven completeness fields that are neither None nor ""
SevenFieldCount(listing) ==
    (IF listing.image_url \notin {None, <<>>} THEN 1 ELSE 0)
        + (IF listing.url \notin {None, <<>>} THEN 1 ELSE 0)
        + (IF listing.condition \notin {None, <<>>} THEN 1 ELSE 0)
        + (IF listing.seller \notin {None, <<>>} THEN 1 ELSE 0)
        + (IF listing.location \notin {None, <<>>} THEN 1 ELSE 0)
        + (IF listing.currency \notin {None, <<>>} THEN 1 ELSE 0)
        + (IF listing.price # NoNumber THEN 1 ELSE 0)

\* the positions of a list that hold the first occurrence of their id
FirstPositions(listings) ==
    { k \in 1..Len(listings) :
          \A j \in 1..(k - 1) : listings[j].listing_id # listings[k].listing_id }

DedupReturned == dPc \in {"deduped", "again"}

\* C1: the list returned by dedupe_listings holds no two listings with the
\* same listing_id, whether the ids of the input were preset or blank
C1_UniqueIds ==
    DedupReturned =>
        \A i \in 1..Len(dOut) : \A j \in 1..Len(dOut) :
            i # j => dOut[i].listing_id # dOut[j].listing_id

\* a batch in which a blank id and a preset id name the same listing, and a
\* third listing repeats it, was deduplicated
C1_Witness ==
    /\ dPc = "deduped"
    /\ Len(dIn) = 3
    /\ \E i \in 1..3 : \E j \in 1..3 :
           /\ dIn[i].listing_id = <<>>
           /\ dIn[j].listing_id = <<"e","b",":","7">>
    /\ Len(dOut) < Len(dIn)

\* C2: for every listing_id of the input, the output holds the earliest
\* input listing among those with this id and the maximal count of the seven
\* completeness fields
C2_BestEarliest ==
    dPc = "deduped" =>
        LET n == ensure_listing_ids(dIn)
        IN  \A k \in 1..Len(n) :
                LET same == { j \in 1..Len(n) : n[j].listing_id = n[k].listing_id }
                    best == CHOOSE j \in same :
                                /\ \A m \in same :
                                       SevenFieldCount(n[m]) <= SevenFieldCount(n[j])
                                /\ \A m \in same :
                                       SevenFieldCount(n[m]) = SevenFieldCount(n[j])
                                           => j <= m
                IN  \E i \in 1..Len(dOut) :
                        /\ dOut[i].listing_id = n[k].listing_id
                        /\ dOut[i] = n[best]

\* a later duplicate with a strictly greater score replaced the first one, and
\* a still later duplicate that ties with it did not replace it
C2_Witness ==
    /\ dPc = "deduped"
    /\ Len(dIn) = 3
    /\ Len(dOut) = 1
    /\ SevenFieldCount(dIn[1]) < SevenFieldCount(dIn[2])
    /\ SevenFieldCount(dIn[2]) = SevenFieldCount(dIn[3])
    /\ dIn[2].price # dIn[3].price
    /\ dOut[1].price = dIn[2].price

\* C3: the ids of the output are the distinct ids of the input in the order
\* of their first appearance, also when the winner is a later duplicate
C3_FirstAppearanceOrder ==
    dPc = "deduped" =>
        LET n == ensure_listing_ids(dIn)
            first == FirstPositions(n)
        IN  /\ Len(dOut) = Cardinality(first)
            /\ \A i \in 1..Len(dOut) :
                   \E k \in first :
                       /\ dOut[i].listing_id = n[k].listing_id
                       /\ Cardinality({ j \in first : j < k }) = i - 1

\* the id seen first was won by the third listing, and another id came between
C3_Witness ==
    /\ dPc = "deduped"
    /\ Len(dIn) = 3
    /\ Len(dOut) = 2
    /\ dOut[1].listing_id = ensure_listing_id(dIn[1]).listing_id
    /\ dOut[1] = ensure_listing_id(dIn[3])
    /\ dOut[1] # ensure_listing_id(dIn[1])
    /\ dOut[2] = ensure_listing_id(dIn[2])

\* C4: dedupe_listings applied to its own output returns that output, and
\* an output is never longer than its input
C4_Idempotent ==
    /\ dPc = "again" => dOut = dPrev
    /\ dPc = "deduped" => Len(dOut) <= Len(dIn)
    /\ dPc = "again" => Len(dOut) <= Len(dPrev)

\* the second application ran on the output of a call that removed duplicates
C4_Witness ==
    /\ dPc = "again"
    /\ Len(dPrev) < Len(dIn)
    /\ Len(dPrev) >= 2
    /\ dOut = dPrev

(***************************************************************************)
(* Claims about ensure_listing_id, checked under SpecIdentity.             *)
(***************************************************************************)
IdentityReturned == iPc \in {"ensured", "again"}

\* a string with a character that is not whitespace
NonBlank(v) == v # None /\ \E i \in 1..Len(v) : ~IsSpace(v[i])

\* present: neither absent nor the empty string
Present(v) == v # None /\ Len(v) > 0

\* C5: every listing returned by ensure_listing_ids has a non-empty
\* listing_id, and the returned list has the length and the order of the input
C5_NonEmptyIds ==
    IdentityReturned =>
        /\ Len(iOut) = Len(iIn)
        /\ \A i \in 1..Len(iOut) :
               /\ iOut[i].listing_id # None
               /\ Len(iOut[i].listing_id) > 0
               /\ [iOut[i] EXCEPT !.listing_id = <<>>]
                      = [iIn[i] EXCEPT !.listing_id = <<>>]

\* a listing with a whitespace-only id and no source, item id or url, next to
\* a different listing, went through ensure_listing_ids
C5_Witness ==
    /\ iPc = "ensured"
    /\ Len(iIn) = 2
    /\ iIn[1].listing_id = <<" ">>
    /\ ~Present(iIn[1].source)
    /\ ~Present(iIn[1].source_item_id)
    /\ ~Present(iIn[1].url)
    /\ iIn[2] # iIn[1]
    /\ iOut[1].listing_id # iOut[2].listing_id

\* C6: a listing with a blank id gets "source:source_item_id" when both are
\* present, else "url:" and the hash of the normalized url when the url is
\* present, else "hash:" and the hash of the fallback fingerprint
C6_RulePriority ==
    iPc = "ensured" =>
        \A i \in 1..Len(iIn) :
            ~NonBlank(iIn[i].listing_id) =>
                IF Present(iIn[i].source) /\ Present(iIn[i].source_item_id)
                THEN iOut[i].listing_id
                         = iIn[i].source \o <<":">> \o iIn[i].source_item_id
                ELSE IF Present(iIn[i].url)
                THEN iOut[i].listing_id
                         = <<"u","r","l",":">> \o hash_text(normalize_url(iIn[i].url))
                ELSE iOut[i].listing_id
                         = <<"h","a","s","h",":">>
                               \o hash_text(fallback_fingerprint(iIn[i]))

\* of two listings with a blank id and a url, the one with source and item id
\* got the source id and the one without a source got the url id
C6_Witness ==
    /\ iPc = "ensured"
    /\ Len(iIn) = 2
    /\ iIn[1].listing_id = <<>> /\ iIn[2].listing_id = <<>>
    /\ Present(iIn[1].url) /\ iIn[1].url = iIn[2].url
    /\ Present(iIn[1].source) /\ Present(iIn[1].source_item_id)
    /\ ~Present(iIn[2].source) /\ Present(iIn[2].source_item_id)
    /\ iOut[1].listing_id = <<"e","b",":","7">>
    /\ StartsWith(iOut[2].listing_id, <<"u","r","l",":">>)

\* C7 as stated, on the listings whose source and source_item_id are present:
\* two listings with identical source and identical source_item_id get
\* identical listing_ids
C7_SameSourceSameId ==
    (iPc = "ensured" /\ Len(iIn) = 2) =>
        ((/\ iIn[1].source = iIn[2].source
          /\ iIn[1].source_item_id = iIn[2].source_item_id
          /\ Present(iIn[1].source) /\ Present(iIn[1].source_item_id))
             => iOut[1].listing_id = iOut[2].listing_id)

\* C7 as amended: two listings with a blank listing_id and identical, present
\* source and source_item_id get identical listing_ids
C7_SameSourceSameIdWhenDerived ==
    (iPc = "ensured" /\ Len(iIn) = 2) =>
        ((/\ iIn[1].source = iIn[2].source
          /\ iIn[1].source_item_id = iIn[2].source_item_id
          /\ Present(iIn[1].source) /\ Present(iIn[1].source_item_id)
          /\ ~NonBlank(iIn[1].listing_id) /\ ~NonBlank(iIn[2].listing_id))
             => iOut[1].listing_id = iOut[2].listing_id)

\* two listings with blank ids, the same source and item id and different
\* urls and titles got their ids
C7_Witness ==
    /\ iPc = "ensured"
    /\ Len(iIn) = 2
    /\ ~NonBlank(iIn[1].listing_id) /\ ~NonBlank(iIn[2].listing_id)
    /\ Present(iIn[1].source) /\ iIn[1].source = iIn[2].source
    /\ Present(iIn[1].source_item_id)
    /\ iIn[1].source_item_id = iIn[2].source_item_id
    /\ Present(iIn[1].url) /\ Present(iIn[2].url) /\ iIn[1].url # iIn[2].url
    /\ iIn[1].title # iIn[2].title
    /\ iOut[1].listing_id = iOut[2].listing_id

\* C8: a listing that carries a non-blank listing_id is returned with every
\* field unchanged, and ensure_listing_id applied to its own result returns
\* that result
C8_NoOpOnPresetId ==
    /\ iPc = "ensured" =>
           \A i \in 1..Len(iIn) : NonBlank(iIn[i].listing_id) => iOut[i] = iIn[i]
    /\ iPc = "again" => iOut = iPrev

\* a listing with a preset id, a source, an item id and a url came back as it
\* was, next to a listing whose id was derived, and the second application
\* changed neither
C8_Witness ==
    /\ iPc = "again"
    /\ Len(iIn) = 2
    /\ iIn[1].listing_id = <<"i","1">>
    /\ Present(iIn[1].source) /\ Present(iIn[1].source_item_id)
    /\ Present(iIn[1].url)
    /\ iIn[2].listing_id = <<>>
    /\ iPrev[1] = iIn[1]
    /\ iPrev[2] # iIn[2]
    /\ iOut = iPrev

(***************************************************************************)
(* Claims about URL normalization, checked under SpecIdentity on the       *)
(* listings whose id is derived from their url.                            *)
(***************************************************************************)
\* listing i of the input has a blank id, no source and a url
UrlDerived(i) ==
    /\ i \in 1..Len(iIn)
    /\ ~NonBlank(iIn[i].listing_id)
    /\ ~(Present(iIn[i].source) /\ Present(iIn[i].source_item_id))
    /\ Present(iIn[i].url)

\* both listings of a pair have their id derived from their url
UrlPair == iPc = "ensured" /\ Len(iIn) = 2 /\ UrlDerived(1) /\ UrlDerived(2)

\* the text before the first colon, as written
SchemeText(u) == SubSeq(u, 1, Find(u, ":"))

\* the parameters of a query string as written: <<key, value>> of the text
\* before and after the first "="
FieldTexts(q) ==
    LET fields == IF q = <<>> THEN <<>>
                  ELSE SelectSeq(Split(q, "&"), LAMBDA f : f # <<>>)
    IN  [i \in 1..Len(fields) |->
            LET e == Find(fields[i], "=")
            IN  IF e = 0 THEN <<fields[i], <<>>>>
                ELSE <<SubSeq(fields[i], 1, e - 1), From(fields[i], e + 1)>>]

\* a tracking key as the claim words it: it starts with utm_ or is one of the
\* five names
TrackingAsWritten(key) ==
    \/ Len(key) >= 4 /\ SubSeq(key, 1, 4) = <<"u","t","m","_">>
    \/ key \in { <<"g","c","l","i","d">>, <<"f","b","c","l","i","d">>,
                 <<"m","c","_","c","i","d">>, <<"m","c","_","e","i","d">>,
                 <<"y","c","l","i","d">> }

\* a tracking key whatever the case of its letters
TrackingAnyCase(key) == TrackingAsWritten(Lower(key))

\* u and v are the same but for the case of letters
SameButCase(u, v) == u # v /\ Lower(u) = Lower(v)

\* u and v differ only in the case of letters of the scheme or the host
OnlySchemeOrHostCase(u, v) ==
    /\ SameButCase(u, v)
    /\ urlsplit(u).path = urlsplit(v).path
    /\ urlsplit(u).query = urlsplit(v).query
    /\ urlsplit(u).fragment = urlsplit(v).fragment

\* u and v differ only in the case of letters of the path
OnlyPathCase(u, v) ==
    /\ SameButCase(u, v)
    /\ SchemeText(u) = SchemeText(v)
    /\ urlsplit(u).netloc = urlsplit(v).netloc
    /\ urlsplit(u).path # urlsplit(v).path
    /\ urlsplit(u).query = urlsplit(v).query
    /\ urlsplit(u).fragment = urlsplit(v).fragment

\* everything of u and v but the query is the same
OnlyQueryDiffers(u, v) ==
    LET a == urlsplit(u)
        b == urlsplit(v)
    IN  /\ SchemeText(u) = SchemeText(v)
        /\ a.netloc = b.netloc
        /\ a.path = b.path
        /\ a.fragment = b.fragment
        /\ a.query # b.query

\* u and v differ only in the case of letters of the value of a parameter
\* that is no tracking parameter
OnlyQueryValueCase(u, v) ==
    LET a == FieldTexts(urlsplit(u).query)
        b == FieldTexts(urlsplit(v).query)
    IN  /\ SameButCase(u, v)
        /\ OnlyQueryDiffers(u, v)
        /\ Len(a) = Len(b)
        /\ \A i \in 1..Len(a) :
               /\ a[i][1] = b[i][1]
               /\ a[i][2] # b[i][2] => ~TrackingAnyCase(UnquotePlus(a[i][1]))

\* the same, and the decoded values differ too: the letters that differ are
\* not all digits of percent-escapes
OnlyDecodedQueryValueCase(u, v) ==
    LET a == FieldTexts(urlsplit(u).query)
        b == FieldTexts(urlsplit(v).query)
    IN  /\ OnlyQueryValueCase(u, v)
        /\ \E i \in 1..Len(a) : UnquotePlus(a[i][2]) # UnquotePlus(b[i][2])

\* C9 as stated: urls that differ only in the case of scheme or host get the
\* same id, urls that differ only in the case of the path or of a
\* non-tracking query value get different ids
C9_CaseSensitivity ==
    UrlPair =>
        LET u == Strip(iIn[1].url)
            v == Strip(iIn[2].url)
        IN  /\ OnlySchemeOrHostCase(u, v)
                   => iOut[1].listing_id = iOut[2].listing_id
            /\ (OnlyPathCase(u, v) \/ OnlyQueryValueCase(u, v))
                   => iOut[1].listing_id # iOut[2].listing_id

\* C9 as amended: the query values must differ in case after decoding, since
\* percent-escapes that differ in the case of their hex digits are the same
\* value
C9_CaseSensitivityOfDecodedValues ==
    UrlPair =>
        LET u == Strip(iIn[1].url)
            v == Strip(iIn[2].url)
        IN  /\ OnlySchemeOrHostCase(u, v)
                   => iOut[1].listing_id = iOut[2].listing_id
            /\ (OnlyPathCase(u, v) \/ OnlyDecodedQueryValueCase(u, v))
                   => iOut[1].listing_id # iOut[2].listing_id

\* two urls with a query that differ only in the case of the host got the
\* same id
C9_Witness ==
    /\ UrlPair
    /\ OnlySchemeOrHostCase(iIn[1].url, iIn[2].url)
    /\ urlsplit(iIn[1].url).netloc # urlsplit(iIn[2].url).netloc
    /\ urlsplit(iIn[1].url).query # <<>>
    /\ iOut[1].listing_id = iOut[2].listing_id

\* the query of the normalized url of listing i, parsed
NormalizedPairs(i) == parse_qsl(urlsplit(normalize_url(iIn[i].url)).query)

\* the query of the url of listing i, parsed
GivenPairs(i) == parse_qsl(urlsplit(Strip(iIn[i].url)).query)

\* u and v differ only in their fragments and in the presence or the values
\* of the parameters Tracking(_) holds of
OnlyTrackingOrFragment(u, v, Tracking(_)) ==
    LET a == urlsplit(u)
        b == urlsplit(v)
    IN  /\ u # v
        /\ SchemeText(u) = SchemeText(v)
        /\ a.netloc = b.netloc
        /\ a.path = b.path
        /\ SelectSeq(FieldTexts(a.query), LAMBDA f : ~Tracking(UnquotePlus(f[1])))
               = SelectSeq(FieldTexts(b.query),
                           LAMBDA f : ~Tracking(UnquotePlus(f[1])))

\* the id of listing i is the url id of a url without fragment whose
\* parameters are those of the given url Tracking(_) does not hold of, with
\* their values, in their order
KeepsAllBut(i, Tracking(_)) ==
    LET normalized == normalize_url(iIn[i].url)
        parts == urlsplit(normalized)
    IN  /\ iOut[i].listing_id = <<"u","r","l",":">> \o hash_text(normalized)
        /\ parts.fragment = <<>>
        /\ "#" \notin Range(normalized)
        /\ parse_qsl(parts.query)
               = SelectSeq(GivenPairs(i), LAMBDA kv : ~Tracking(kv[1]))

\* C10 as stated: normalization removes the parameters whose key starts with
\* utm_ or is one of the five names, removes the fragment and keeps every
\* other parameter with its value and in order; urls that differ only in
\* tracking parameters or in the fragment get the same id
C10_TrackingRemoved ==
    /\ iPc = "ensured" =>
           \A i \in 1..Len(iIn) : UrlDerived(i) => KeepsAllBut(i, TrackingAsWritten)
    /\ UrlPair =>
           (OnlyTrackingOrFragment(Strip(iIn[1].url), Strip(iIn[2].url),
                                   TrackingAsWritten)
                => iOut[1].listing_id = iOut[2].listing_id)

\* C10 as amended: the key is a tracking key whatever the case of its letters
C10_TrackingRemovedAnyCase ==
    /\ iPc = "ensured" =>
           \A i \in 1..Len(iIn) : UrlDerived(i) => KeepsAllBut(i, TrackingAnyCase)
    /\ UrlPair =>
           (OnlyTrackingOrFragment(Strip(iIn[1].url), Strip(iIn[2].url),
                                   TrackingAnyCase)
                => iOut[1].listing_id = iOut[2].listing_id)

\* two urls with a parameter that is kept, of which one has a tracking
\* parameter before it and a fragment and the other has neither, got the same id
C10_Witness ==
    /\ UrlPair
    /\ Len(GivenPairs(1)) = 2
    /\ TrackingAsWritten(GivenPairs(1)[1][1])
    /\ Len(NormalizedPairs(1)) = 1
    /\ Len(GivenPairs(2)) = 1
    /\ OnlyTrackingOrFragment(iIn[1].url, iIn[2].url, TrackingAnyCase)
    /\ iOut[1].listing_id = iOut[2].listing_id

(***************************************************************************)
(* Python floats (IEEE 754 binary64) as valuation.py computes with them.   *)
(* A float is [neg, bits, exp], the number (-1)^neg * bits * 2^exp, where  *)
(* bits is a natural number written as its binary digits, least            *)
(* significant first and without a leading zero, which is odd or zero: one *)
(* record for every number.  The zero has no sign and the exponent has no  *)
(* range: overflow, underflow and -0.0 are out of reach of the prices      *)
(* drawn.  Every operation computes the exact result and rounds it to the  *)
(* nearest float, a tie to the even significand.                           *)
(***************************************************************************)
\* the binary digits of the significand of a float
SignificandBits == 53

\* the w lowest binary digits of n
FixedBits(n, w) == [i \in 1..w |-> (n \div 2^(i - 1)) % 2]

\* without the leading zeros
TrimBits(b) ==
    IF \A i \in 1..Len(b) : b[i] = 0 THEN <<>>
    ELSE SubSeq(b, 1, CHOOSE i \in 1..Len(b) :
                          b[i] = 1 /\ \A j \in (i + 1)..Len(b) : b[j] = 0)

\* the digits of a natural number below 2^31
BitsOfNat(n) == TrimBits(FixedBits(n, 31))

\* the number of at most 30 digits
RECURSIVE NatOfBits(_)
NatOfBits(b) == IF b = <<>> THEN 0 ELSE b[1] + 2 * NatOfBits(Tail(b))

\* the 15 lowest digits of b and the digits above them: the arithmetic below
\* works on 15 digits at a time
LowBits(b) == SubSeq(b, 1, IF Len(b) < 15 THEN Len(b) ELSE 15)

HighBits(b) == SubSeq(b, 16, Len(b))

\* b * 2^k
ShiftBits(b, k) == IF b = <<>> THEN <<>> ELSE [i \in 1..k |-> 0] \o b

\* a + b + carry
RECURSIVE AddBits(_, _, _)
AddBits(a, b, carry) ==
    IF a = <<>> /\ carry = 0 THEN b
    ELSE IF b = <<>> /\ carry = 0 THEN a
    ELSE LET sum == NatOfBits(LowBits(a)) + NatOfBits(LowBits(b)) + carry
         IN  IF Len(a) <= 15 /\ Len(b) <= 15 THEN BitsOfNat(sum)
             ELSE FixedBits(sum, 15)
                      \o AddBits(HighBits(a), HighBits(b), sum \div 2^15)

\* a - b - borrow for a >= b + borrow, leading zeros left in
RECURSIVE SubBitsRaw(_, _, _)
SubBitsRaw(a, b, borrow) ==
    IF b = <<>> /\ borrow = 0 THEN a
    ELSE LET diff == NatOfBits(LowBits(a)) - NatOfBits(LowBits(b)) - borrow
         IN  FixedBits(IF diff < 0 THEN diff + 2^15 ELSE diff, Len(LowBits(a)))
                 \o SubBitsRaw(HighBits(a), HighBits(b), IF diff < 0 THEN 1 ELSE 0)

SubBits(a, b) == TrimBits(SubBitsRaw(a, b, 0))

\* a < b
LessBits(a, b) ==
    \/ Len(a) < Len(b)
    \/ /\ Len(a) = Len(b)
       /\ \E i \in 1..Len(a) :
              a[i] < b[i] /\ \A j \in (i + 1)..Len(a) : a[j] = b[j]

\* a * k + carry for a natural number k below 2^15
RECURSIVE MulSmall(_, _, _)
MulSmall(a, k, carry) ==
    IF a = <<>> THEN BitsOfNat(carry)
    ELSE LET product == NatOfBits(LowBits(a)) * k + carry
         IN  IF Len(a) <= 15 THEN BitsOfNat(product)
             ELSE FixedBits(product, 15)
                      \o MulSmall(HighBits(a), k, product \div 2^15)

\* a * b
RECURSIVE MulBits(_, _)
MulBits(a, b) ==
    IF a = <<>> \/ b = <<>> THEN <<>>
    ELSE AddBits(TrimBits(MulSmall(a, NatOfBits(LowBits(b)), 0)),
                 ShiftBits(MulBits(a, HighBits(b)), 15), 0)

\* the number of trailing zeros of a number that is not zero
TrailingZeros(b) == (CHOOSE i \in 1..Len(b) : b[i] = 1 /\ \A j \in 1..(i - 1) : b[j] = 0) - 1

\* the record of (-1)^neg * bits * 2^exp
Dyadic(neg, bits, exp) ==
    LET trimmed == TrimBits(bits)
    IN  IF trimmed = <<>> THEN [neg |-> FALSE, bits |-> <<>>, exp |-> 0]
        ELSE LET z == TrailingZeros(trimmed)
             IN  [neg |-> neg, bits |-> SubSeq(trimmed, z + 1, Len(trimmed)),
                  exp |-> exp + z]

\* float(n) of a natural number below 2^53
FloatOfNat(n) == Dyadic(FALSE, BitsOfNat(n), 0)

FloatZero == FloatOfNat(0)

FNeg(x) == Dyadic(~x.neg, x.bits, x.exp)

\* the nearest float of a number, a tie to the even significand
RoundToFloat(x) ==
    LET d == Len(x.bits) - SignificandBits
    IN  IF d <= 0 THEN x
        ELSE LET high == SubSeq(x.bits, d + 1, Len(x.bits))
                 up == /\ x.bits[d] = 1
                       /\ \/ \E i \in 1..(d - 1) : x.bits[i] = 1
                          \/ high[1] = 1
             IN  Dyadic(x.neg, IF up THEN AddBits(high, <<1>>, 0) ELSE high,
                        x.exp + d)

\* x + y, exact
AddExact(x, y) ==
    LET e == IF x.exp < y.exp THEN x.exp ELSE y.exp
        a == ShiftBits(x.bits, x.exp - e)
        b == ShiftBits(y.bits, y.exp - e)
    IN  IF x.neg = y.neg THEN Dyadic(x.neg, AddBits(a, b, 0), e)
        ELSE IF LessBits(a, b) THEN Dyadic(y.neg, SubBits(b, a), e)
        ELSE Dyadic(x.neg, SubBits(a, b), e)

\* x * y, exact
MulExact(x, y) ==
    Dyadic(x.neg # y.neg,
           IF Len(x.bits) < Len(y.bits) THEN MulBits(y.bits, x.bits)
           ELSE MulBits(x.bits, y.bits),
           x.exp + y.exp)

\* x < y and x <= y
FLess(x, y) == AddExact(x, FNeg(y)).neg

FLessEq(x, y) == ~FLess(y, x)

\* x + y, x - y and x * y of floats
FAdd(x, y) == RoundToFloat(AddExact(x, y))

FSub(x, y) == RoundToFloat(AddExact(x, FNeg(y)))

FMul(x, y) == RoundToFloat(MulExact(x, y))

\* the digits of s in the opposite order
Reverse(s) == [i \in 1..Len(s) |-> s[Len(s) + 1 - i]]

\* long division of the number with the digits num (most significant first)
\* by the natural number d below 2^15, 15 digits at a time: the digits of
\* the quotient, most significant first, and the remainder
RECURSIVE LongDiv(_, _, _)
LongDiv(num, d, rem) ==
    IF num = <<>> THEN [q |-> <<>>, rem |-> rem]
    ELSE LET w == IF Len(num) < 15 THEN Len(num) ELSE 15
             r == rem * 2^w + NatOfBits(Reverse(SubSeq(num, 1, w)))
             rest == LongDiv(SubSeq(num, w + 1, Len(num)), d, r % d)
         IN  [q |-> Reverse(FixedBits(r \div d, w)) \o rest.q, rem |-> rest.rem]

\* x / y of floats, y not zero and with a significand below 2^15: the
\* quotient is computed to two digits more than a significand and one more
\* that says whether a remainder is left, and rounded
FDiv(x, y) ==
    LET gap == SignificandBits + 2 + Len(y.bits) - Len(x.bits)
        s == IF gap > 0 THEN gap ELSE 0
        r == LongDiv(Reverse(x.bits) \o [i \in 1..s |-> 0], NatOfBits(y.bits), 0)
    IN  IF x.bits = <<>> THEN FloatZero
        ELSE RoundToFloat(Dyadic(x.neg # y.neg,
                                 <<IF r.rem = 0 THEN 0 ELSE 1>> \o Reverse(r.q),
                                 x.exp - y.exp - s - 1))

\* the float a decimal literal n/10 denotes
Tenths(n) == FDiv(FloatOfNat(n), FloatOfNat(10))

\* the integer nearest to x, a tie to the even one
RoundHalfEven(x) ==
    LET k == 0 - x.exp
        n == Len(x.bits)
        whole == IF k >= n THEN <<>> ELSE SubSeq(x.bits, k + 1, n)
        up == /\ k <= n
              /\ x.bits[k] = 1
              /\ \/ \E i \in 1..(k - 1) : x.bits[i] = 1
                 \/ (whole # <<>> /\ whole[1] = 1)
    IN  IF k <= 0 THEN x
        ELSE Dyadic(x.neg, IF up THEN AddBits(whole, <<1>>, 0) ELSE whole, 0)

\* the floats 2.0, 10.0 and 100.0, and the floats that the literals 0.90 and
\* 1.10 denote
FloatTwo == FloatOfNat(2)

FloatTen == FloatOfNat(10)

FloatHundred == FloatOfNat(100)

Literal090 == Tenths(9)

Literal110 == Tenths(11)

\* round(x, 1): the decimal with one digit after the point nearest to x, a
\* tie to the even digit, and the float nearest to that decimal
Round1(x) == FDiv(RoundHalfEven(MulExact(x, FloatTen)), FloatTen)

\* min(a, b) and max(a, b) of Python: the first argument unless the second is
\* smaller (greater)
PyMin(a, b) == IF FLess(b, a) THEN b ELSE a

PyMax(a, b) == IF FLess(a, b) THEN b ELSE a

(***************************************************************************)
(* fretscout/valuation.py.  A price is None or a number; the deal fields   *)
(* that hold a float are <<>> (None) or <<x>> with x a float.              *)
(***************************************************************************)
\* the number of prices a batch needs for a benchmark
MinPriced == 3

Good == <<"G","o","o","d">>
Fair == <<"F","a","i","r">>
High == <<"H","i","g","h">>

\* _parse_price(value): Listing.price is Optional[float], so the value is
\* None or a number and never a bool
parse_price(value) ==
    IF value = NoNumber THEN NoNumber ELSE <<FloatOfNat(value[1])>>

\* _listing_price with the shipping added to the price
ListingPriceAllIn(listing) ==
    IF listing.price = NoNumber THEN NoNumber
    ELSE IF listing.shipping = NoNumber THEN parse_price(listing.price)
    ELSE <<FAdd(FloatOfNat(listing.price[1]), FloatOfNat(listing.shipping[1]))>>

\* _listing_price with an absent price counted as 0.0
ListingPriceZeroWhenAbsent(listing) ==
    IF listing.price = NoNumber THEN <<FloatZero>>
    ELSE parse_price(listing.price)

\* _listing_price(listing)
listing_price(listing) == parse_price(listing.price)

\* bool(value and value.strip())
HasText(value) == value # None /\ Strip(value) # <<>>

\* _confidence_level(listing)
confidence_level(listing) ==
    IF HasText(listing.title) /\ HasText(listing.condition)
           /\ parse_price(listing.price) # NoNumber
    THEN <<"h","i","g","h">>
    ELSE IF HasText(listing.title) /\ parse_price(listing.price) # NoNumber
    THEN <<"m","e","d","i","u","m">>
    ELSE <<"l","o","w">>

\* _confidence_reasons(listing)
confidence_reasons(listing) ==
    LET reasons ==
            (IF ~HasText(listing.title)
             THEN << <<"m","i","s","s","i","n","g"," ","t","i","t","l","e">> >>
             ELSE <<>>)
         \o (IF ~HasText(listing.condition)
             THEN << <<"m","i","s","s","i","n","g"," ","c","o","n","d","i","t","i","o","n">> >>
             ELSE <<>>)
         \o (IF parse_price(listing.price) = NoNumber
             THEN << <<"m","i","s","s","i","n","g"," ","p","r","i","c","e">> >>
             ELSE <<>>)
    IN  IF reasons = <<>>
        THEN << <<"c","o","m","p","l","e","t","e"," ","l","i","s","t","i","n","g"," ","d","e","t","a","i","l","s">> >>
        ELSE reasons

\* the prices of the listings that have one, in the order of the batch
RECURSIVE Priced(_)
Priced(listings) ==
    IF listings = <<>> THEN <<>>
    ELSE listing_price(Head(listings)) \o Priced(Tail(listings))

\* sorted(data) of floats: each element is put after the elements that are
\* not greater than it
RECURSIVE InsertSorted(_, _)
InsertSorted(x, s) ==
    IF s = <<>> THEN <<x>>
    ELSE IF FLess(x, s[1]) THEN <<x>> \o s
    ELSE <<s[1]>> \o InsertSorted(x, Tail(s))

RECURSIVE SortedFloats(_)
SortedFloats(data) ==
    IF data = <<>> THEN <<>>
    ELSE InsertSorted(data[Len(data)],
                      SortedFloats(SubSeq(data, 1, Len(data) - 1)))

\* the middle of a sorted list: the middle element, or the mean of the two
\* middle elements
MiddleOf(s) ==
    IF Len(s) % 2 = 1 THEN s[Len(s) \div 2 + 1]
    ELSE FDiv(FAdd(s[Len(s) \div 2], s[Len(s) \div 2 + 1]), FloatTwo)

\* statistics.median(data)
median(data) == MiddleOf(SortedFloats(data))

\* the benchmark with the threshold at two prices
BenchmarkFromTwo(priced) ==
    IF Len(priced) >= MinPriced - 1 THEN <<median(priced)>> ELSE NoNumber

\* the benchmark of the batch: None, or the median of at least MinPriced prices
Benchmark(priced) ==
    IF Len(priced) >= MinPriced THEN <<median(priced)>> ELSE NoNumber

\* ((price - benchmark) / benchmark) * 100
PercentDiff(price, benchmark) ==
    FMul(FDiv(FSub(price, benchmark), benchmark), FloatHundred)

\* the score without the clamp
DealScoreUnclamped(percent_diff) ==
    Round1(FSub(FloatHundred, percent_diff))

\* max(0.0, min(100.0, round(100 - deal_percent_diff, 1)))
DealScore(percent_diff) ==
    PyMax(FloatZero,
          PyMin(FloatHundred, Round1(FSub(FloatHundred, percent_diff))))

\* the label of a price against the benchmark
DealLabel(price, benchmark) ==
    IF FLessEq(price, FMul(benchmark, Literal090)) THEN Good
    ELSE IF FLess(price, FMul(benchmark, Literal110)) THEN Fair
    ELSE High

\* the deal fields of a listing with a price in a batch with a benchmark
Scored(price, benchmark) ==
    LET deal_percent_diff == PercentDiff(price, benchmark)
    IN  [deal_label |-> DealLabel(price, benchmark),
         deal_score |-> <<DealScore(deal_percent_diff)>>,
         deal_reference_price |-> <<benchmark>>,
         deal_percent_diff |-> <<deal_percent_diff>>]

\* the deal fields of a listing that is not scored
NotScored ==
    [deal_label |-> None, deal_score |-> NoNumber,
     deal_reference_price |-> NoNumber, deal_percent_diff |-> NoNumber]

\* the deal fields with the reference price given to every listing of a batch
\* that has a benchmark
DealFieldsReferenceAlways(price, benchmark) ==
    IF benchmark = NoNumber THEN NotScored
    ELSE IF price = NoNumber
    THEN [NotScored EXCEPT !.deal_reference_price = benchmark]
    ELSE Scored(price[1], benchmark[1])

\* the deal fields of a listing with this price in a batch with this benchmark
DealFields(price, benchmark) ==
    IF benchmark = NoNumber \/ price = NoNumber THEN NotScored
    ELSE Scored(price[1], benchmark[1])

\* listing.model_copy(update={...}): the listing with the deal fields and the
\* confidence fields replaced
ScoredListing(listing, benchmark) ==
    (DealFields(listing_price(listing), benchmark)
        @@ [deal_confidence |-> confidence_level(listing),
            deal_confidence_reasons |-> confidence_reasons(listing)])
        @@ listing

\* the division by the benchmark raises ZeroDivisionError
DividesByZero(listing, benchmark) ==
    /\ benchmark # NoNumber
    /\ listing_price(listing) # NoNumber
    /\ benchmark[1] = FloatZero

\* the loop of score_listings over the batch
ScoreLoop(listings, benchmark) ==
    IF \E i \in 1..Len(listings) : DividesByZero(listings[i], benchmark)
    THEN [raised |-> "ZeroDivisionError", value |-> <<>>]
    ELSE [raised |-> "none",
          value |-> [i \in 1..Len(listings) |->
                         ScoredListing(listings[i], benchmark)]]

\* score_listings(listings)
score_listings(listings) == ScoreLoop(listings, Benchmark(Priced(listings)))

(***************************************************************************)
(* Inputs of score_listings.                                               *)
(***************************************************************************)
\* the listing at position i of a batch; the deal fields of a Listing that
\* was not scored are None
ValuationListing(i, title, condition, price, shipping) ==
    [listing_id |-> <<"l", Digits[i + 1]>>, title |-> title,
     condition |-> condition, price |-> price, shipping |-> shipping,
     deal_label |-> None, deal_confidence |-> None]

\* the prices of the first MinPriced listings of a batch
PricePool ==
    { NoNumber, <<0>>, <<100>>, <<110>>, <<135>>, <<150>>, <<165>>, <<200>> }

\* the prices of the listings after them
ExtraPrices == { NoNumber, <<100>> }

PricesAt(i) == IF i <= MinPriced THEN PricePool ELSE ExtraPrices

\* the batches of n complete listings without shipping
PricedBatches(n) ==
    { [i \in 1..n |-> ValuationListing(i, <<"t">>, <<"n">>, f[i], NoNumber)] :
          f \in { g \in [1..n -> PricePool \cup ExtraPrices] :
                      \A i \in 1..n : g[i] \in PricesAt(i) } }

\* titles, conditions and prices that are present, blank or absent
FieldProfiles ==
    [title : { <<"t">>, <<" ">> },
     condition : { None, <<" ">>, <<"n">> },
     price : { NoNumber, <<100>> }]

\* complete listings with and without a price
PeerProfiles ==
    { p \in FieldProfiles : p.title = <<"t">> /\ p.condition = <<"n">> }

\* the batches of n listings with shipping of which the first has any
\* profile and the others are complete but for the price
FieldBatches(n) ==
    { [i \in 1..n |-> ValuationListing(i, f[i].title, f[i].condition,
                                       f[i].price, <<10>>)] :
          f \in { g \in [1..n -> FieldProfiles] :
                      \A i \in 2..n : g[i] \in PeerProfiles } }

\* the shipping values a batch is given for the comparison
ShippingValues == { NoNumber, <<0>>, <<25>> }

\* the batch with the shipping of every listing replaced
WithShipping(listings, shipping) ==
    [i \in 1..Len(listings) |-> [listings[i] EXCEPT !.shipping = shipping]]

\* the batch with the shipping of one listing replaced
WithShippingAt(listings, k, shipping) ==
    [i \in 1..Len(listings) |->
         IF i = k THEN [listings[i] EXCEPT !.shipping = shipping]
         ELSE listings[i]]

\* identity and dedup are not running
IdleIdentity ==
    /\ iIn = <<>>
    /\ iOut = <<>>
    /\ iPrev = <<>>
    /\ iPc = "off"

IdleDedup ==
    /\ dIn = <<>>
    /\ dOut = <<>>
    /\ dPrev = <<>>
    /\ dPc = "off"

\* the batches handed to score_listings: complete listings with any prices,
\* and batches that start with a listing with or without title, condition
\* and price
InitValuation ==
    /\ \/ \E n \in 0..MaxScoreBatch : vIn \in PricedBatches(n)
       \/ \E n \in 1..MaxScoreBatch : vIn \in FieldBatches(n)
    /\ vOut = <<>>
    /\ vErr = "none"
    /\ vAlt = <<>>
    /\ vAltOut = <<>>
    /\ vAltErr = "none"
    /\ vPc = "start"
    /\ IdleIdentity
    /\ IdleDedup
    /\ IdleAlerts
    /\ IdleExtra

\* score_listings(listings)
ScoreListings ==
    /\ vPc = "start"
    /\ \E result \in {score_listings(vIn)} :
           /\ vOut' = result.value
           /\ vErr' = result.raised
    /\ vPc' = "scored"
    /\ UNCHANGED <<vIn, vAlt, vAltOut, vAltErr>>
    /\ UNCHANGED <<identVars, dedupVars, alertVars>>
    /\ UNCHANGED extraVars

\* score_listings on the batch with other shipping values: the same value in
\* every listing, or another value in one listing
ScoreOtherShipping ==
    /\ vPc = "scored"
    /\ \/ \E s \in ShippingValues : vAlt' = WithShipping(vIn, s)
       \/ \E k \in 1..Len(vIn) : vAlt' = WithShippingAt(vIn, k, <<250>>)
    /\ \E result \in {score_listings(vAlt')} :
           /\ vAltOut' = result.value
           /\ vAltErr' = result.raised
    /\ vPc' = "compared"
    /\ UNCHANGED <<vIn, vOut, vErr>>
    /\ UNCHANGED <<identVars, dedupVars, alertVars>>
    /\ UNCHANGED extraVars

NextValuation == ScoreListings \/ ScoreOtherShipping

SpecValuation == InitValuation /\ [][NextValuation]_vars

(***************************************************************************)
(* fretscout/alerts.py.  The alert_events table is the list of its rows in *)
(* the order of insertion; created_at, the time of the insert, is left out *)
(* of the rows.                                                            *)
(***************************************************************************)
\* sub in text
Contains(text, sub) ==
    \E i \in 0..(Len(text) - Len(sub)) : SubSeq(text, i + 1, i + Len(sub)) = sub

\* the digits of a number in groups of three with commas between them
RECURSIVE GroupThousands(_)
GroupThousands(digits) ==
    IF Len(digits) <= 3 THEN digits
    ELSE GroupThousands(SubSeq(digits, 1, Len(digits) - 3))
             \o <<",">> \o SubSeq(digits, Len(digits) - 2, Len(digits))

\* f"{x:,.2f}" of a float with an integral value
FormatMoney(n) == GroupThousands(NatStr(n)) \o <<".", "0", "0">>

\* f"Match found: {listing.title} at ${listing.all_in_price:,.2f}"
MatchMessage(listing) ==
    <<"M","a","t","c","h"," ","f","o","u","n","d",":"," ">> \o listing.title
        \o <<" ","a","t"," ","$">> \o FormatMoney(listing.all_in_price[1])

\* alert.alert_id or 0
AlertIdOrZero(alert) ==
    IF alert.alert_id = NoNumber THEN 0 ELSE alert.alert_id[1]

\* create_alert_event: the row is inserted and committed, and the event has
\* the row id that AUTOINCREMENT assigns
create_alert_event(table, alert_id, listing_id, message) ==
    [event_id |-> <<Len(table) + 1>>, alert_id |-> alert_id,
     listing_id |-> listing_id, message |-> message]

\* alert.max_price is not None and listing.all_in_price > alert.max_price
OverMaxPrice(alert, listing) ==
    /\ alert.max_price # NoNumber
    /\ FLess(FloatOfNat(alert.max_price[1]), FloatOfNat(listing.all_in_price[1]))

\* the body of the loops with all the inserts of a call in one transaction:
\* a refused insert takes the rows of the call out of the table again
AlertStepRollback(alert, listing, acc) ==
    IF acc.raised # "none" THEN acc
    ELSE IF ~Contains(Lower(listing.title), Lower(alert.query)) THEN acc
    ELSE IF alert.max_price # NoNumber /\ listing.all_in_price = NoNumber
    THEN [acc EXCEPT !.raised = "TypeError"]
    ELSE IF OverMaxPrice(alert, listing) THEN acc
    ELSE IF listing.all_in_price = NoNumber
    THEN [acc EXCEPT !.raised = "TypeError"]
    ELSE IF acc.inserts + 1 = acc.fail
    THEN [acc EXCEPT !.raised = "sqlite3.Error", !.inserts = acc.inserts + 1,
                     !.table = SubSeq(acc.table, 1,
                                      Len(acc.table) - Len(acc.events))]
    ELSE [acc EXCEPT
              !.events = Append(acc.events,
                                create_alert_event(acc.table, AlertIdOrZero(alert),
                                                   listing.listing_id,
                                                   MatchMessage(listing))),
              !.table = Append(acc.table,
                               create_alert_event(acc.table, AlertIdOrZero(alert),
                                                  listing.listing_id,
                                                  MatchMessage(listing))),
              !.inserts = acc.inserts + 1]

\* the body of the loops for one alert and one listing: acc holds the events
\* collected, the table, the exception raised, the number of inserts the
\* call has made and the insert that storage refuses (0: none).  The
\* execute of a refused insert raises, so no row is added and the exception
\* leaves create_alert_event and the loops
AlertStep(alert, listing, acc) ==
    IF acc.raised # "none" THEN acc
    ELSE IF ~Contains(Lower(listing.title), Lower(alert.query)) THEN acc
    ELSE IF alert.max_price # NoNumber /\ listing.all_in_price = NoNumber
    THEN [acc EXCEPT !.raised = "TypeError"]
    ELSE IF OverMaxPrice(alert, listing) THEN acc
    ELSE IF listing.all_in_price = NoNumber
    THEN [acc EXCEPT !.raised = "TypeError"]
    ELSE IF acc.inserts + 1 = acc.fail
    THEN [acc EXCEPT !.raised = "sqlite3.Error", !.inserts = acc.inserts + 1]
    ELSE [acc EXCEPT
              !.events = Append(acc.events,
                                create_alert_event(acc.table, AlertIdOrZero(alert),
                                                   listing.listing_id,
                                                   MatchMessage(listing))),
              !.table = Append(acc.table,
                               create_alert_event(acc.table, AlertIdOrZero(alert),
                                                  listing.listing_id,
                                                  MatchMessage(listing))),
              !.inserts = acc.inserts + 1]

\* the loops over the alerts and, for each alert, over the listings, from
\* the k-th pair on
RECURSIVE AlertLoop(_, _, _, _)
AlertLoop(alerts, listings, k, acc) ==
    IF k > Len(alerts) * Len(listings) THEN acc
    ELSE AlertLoop(alerts, listings, k + 1,
                   AlertStep(alerts[((k - 1) \div Len(listings)) + 1],
                             listings[((k - 1) % Len(listings)) + 1], acc))

\* what generate_alert_events returns: the events, or nothing when it raised
AlertResult(final) ==
    [value |-> IF final.raised = "none" THEN final.events ELSE <<>>,
     table |-> final.table, raised |-> final.raised]

\* generate_alert_events(connection, alerts, listings), on a connection
\* whose storage refuses the insert of this number
generate_alert_events(table, alerts, listings, fail) ==
    AlertResult(AlertLoop(alerts, listings, 1,
                          [events |-> <<>>, table |-> table, raised |-> "none",
                           inserts |-> 0, fail |-> fail]))

(***************************************************************************)
(* Inputs of generate_alert_events.                                        *)
(***************************************************************************)
\* the saved alert with the id that position i of the saved_alerts table has
SavedAlert(i, query, max_price) ==
    [alert_id |-> <<i>>, query |-> query, max_price |-> max_price]

AlertQueries == { <<"A","b">>, <<"b","c">> }

AlertBatches(n) ==
    { [i \in 1..n |-> SavedAlert(i, f[i].query, f[i].max_price)] :
          f \in [1..n -> [query : AlertQueries,
                          max_price : { NoNumber, <<1000>> }]] }

\* the listing at position i of the deduplicated batch
AlertListing(i, title, all_in_price) ==
    [listing_id |-> <<"l", Digits[i + 1]>>, title |-> title,
     all_in_price |-> all_in_price]

AlertTitles == { <<"a","B","c">>, <<"x","a","b">> }

AllInPrices == { NoNumber, <<950>>, <<1000>>, <<1100>> }

\* the first two listings have any title and price; the listings after them
\* have a price
AllInPricesAt(i) == IF i <= 2 THEN AllInPrices ELSE { <<1000>> }

ListingBatches(n) ==
    { [i \in 1..n |-> AlertListing(i, f[i].title, f[i].all_in_price)] :
          f \in { g \in [1..n -> [title : AlertTitles,
                                  all_in_price : AllInPrices]] :
                      \A i \in 1..n : g[i].all_in_price \in AllInPricesAt(i) } }

\* the alerts and the listings handed to generate_alert_events, with an
\* empty alert_events table
InitAlerts ==
    /\ \E n \in 0..MaxAlerts : aAlerts \in AlertBatches(n)
    /\ \E n \in 0..MaxAlerts : aListings \in ListingBatches(n)
    /\ aTable = <<>>
    /\ aBefore = <<>>
    /\ aOut = <<>>
    /\ aErr = "none"
    /\ aFail = <<>>
    /\ aPc = "start"
    /\ IdleIdentity
    /\ IdleDedup
    /\ IdleValuation
    /\ IdleExtra

\* generate_alert_events(connection, alerts, listings)
GenerateAlertEvents ==
    /\ aPc = "start"
    /\ \E fail \in 0..MaxAlerts :
       \E result \in {generate_alert_events(aTable, aAlerts, aListings, fail)} :
           /\ aOut' = result.value
           /\ aTable' = result.table
           /\ aErr' = result.raised
           /\ aFail' = Append(aFail, IF result.raised = "sqlite3.Error" THEN fail ELSE 0)
    /\ aBefore' = aTable
    /\ aPc' = "generated"
    /\ UNCHANGED <<aAlerts, aListings>>
    /\ UNCHANGED <<identVars, dedupVars, scoreVars>>
    /\ UNCHANGED extraVars

\* the same call once more, on the table the first call left
GenerateAlertEventsAgain ==
    /\ aPc = "generated"
    /\ \E fail \in 0..MaxAlerts :
       \E result \in {generate_alert_events(aTable, aAlerts, aListings, fail)} :
           /\ aOut' = result.value
           /\ aTable' = result.table
           /\ aErr' = result.raised
           /\ aFail' = Append(aFail, IF result.raised = "sqlite3.Error" THEN fail ELSE 0)
    /\ aBefore' = aTable
    /\ aPc' = "again"
    /\ UNCHANGED <<aAlerts, aListings>>
    /\ UNCHANGED <<identVars, dedupVars, scoreVars>>
    /\ UNCHANGED extraVars

NextAlerts == GenerateAlertEvents \/ GenerateAlertEventsAgain

SpecAlerts == InitAlerts /\ [][NextAlerts]_vars

(***************************************************************************)
(* The pipeline on objects.  A Listing is an object at an address of the   *)
(* heap, and a list holds addresses.  model_copy makes a new object at a   *)
(* new address; "return listing" hands back the address it was given.      *)
(* A stage returns the heap after the call, the list it was handed as it   *)
(* is after the call, the list it returns and the exception it raised.     *)
(***************************************************************************)
\* ensure_listing_id writing the derived id into the listing it was handed
EnsureObjectInPlace(acc, addr) ==
    IF HasListingId(acc.heap[addr])
    THEN [acc EXCEPT !.out = Append(acc.out, addr)]
    ELSE [heap |-> [acc.heap EXCEPT ![addr].listing_id = DerivedId(acc.heap[addr])],
          out |-> Append(acc.out, addr)]

\* ensure_listing_id(listing) on the object at addr: the same object when it
\* has an id, and else listing.model_copy(update={"listing_id": listing_id})
EnsureObject(acc, addr) ==
    IF HasListingId(acc.heap[addr])
    THEN [acc EXCEPT !.out = Append(acc.out, addr)]
    ELSE [heap |-> Append(acc.heap,
                          [acc.heap[addr] EXCEPT
                               !.listing_id = DerivedId(acc.heap[addr])]),
          out |-> Append(acc.out, Len(acc.heap) + 1)]

\* [ensure_listing_id(listing) for listing in listings] from position k on
RECURSIVE EnsureObjects(_, _, _)
EnsureObjects(addrs, k, acc) ==
    IF k > Len(addrs) THEN acc
    ELSE EnsureObjects(addrs, k + 1, EnsureObject(acc, addrs[k]))

\* what a stage that returned hands back
StageReturn(addrs, final) ==
    [heap |-> final.heap, arg |-> addrs, out |-> final.out, raised |-> "none"]

\* ensure_listing_ids(listings) on objects
EnsureListingIdsOnHeap(heap, addrs) ==
    StageReturn(addrs, EnsureObjects(addrs, 1, [heap |-> heap, out |-> <<>>]))

\* the object at an address as the loop of dedupe_listings holds it: its
\* fields, and where it is
Ref(heap, addr) == [at |-> addr] @@ heap[addr]

\* the loop of dedupe_listings and its return on the normalized objects
DedupeObjects(normalized) ==
    [heap |-> normalized.heap,
     out |-> [i \in 1..Len(DedupeResult(DedupeLoop(
                     [j \in 1..Len(normalized.out) |->
                          Ref(normalized.heap, normalized.out[j])],
                     1, DedupeStart))) |->
                  DedupeResult(DedupeLoop(
                      [j \in 1..Len(normalized.out) |->
                           Ref(normalized.heap, normalized.out[j])],
                      1, DedupeStart))[i].at]]

\* dedupe_listings(listings) on objects
DedupeListingsOnHeap(heap, addrs) ==
    StageReturn(addrs,
                DedupeObjects(EnsureObjects(addrs, 1,
                                            [heap |-> heap, out |-> <<>>])))

\* the list score_listings returns: one new object for each listing
ScoreObjects(heap, addrs, result) ==
    IF result.raised # "none"
    THEN [heap |-> heap, arg |-> addrs, out |-> <<>>, raised |-> result.raised]
    ELSE [heap |-> heap \o result.value, arg |-> addrs,
          out |-> [i \in 1..Len(result.value) |-> Len(heap) + i],
          raised |-> "none"]

\* score_listings(listings) on objects
ScoreListingsOnHeap(heap, addrs) ==
    ScoreObjects(heap, addrs,
                 score_listings([i \in 1..Len(addrs) |-> heap[addrs[i]]]))

(***************************************************************************)
(* Inputs of the pipeline: raw listings of one source, with and without an *)
(* id and a price.                                                         *)
(***************************************************************************)
MaxPipeline == 3    \* listings in the raw list handed to the pipeline

RawListing(listing_id, source_item_id, price) ==
    [listing_id |-> listing_id, source |-> <<"e","b">>,
     source_item_id |-> source_item_id, title |-> <<"t">>, url |-> None,
     price |-> price, shipping |-> NoNumber, currency |-> None,
     condition |-> <<"n">>, location |-> None, image_url |-> None,
     seller |-> None, deal_label |-> None, deal_confidence |-> None]

\* the first MinPriced listings have any id, item id and price; the listings
\* after them have no id
RawListingsAt(i) ==
    { RawListing(id, sid, price) :
          id \in (IF i <= MinPriced THEN { <<>>, <<"x">> } ELSE { <<>> }),
          sid \in { <<"7">>, <<"8">> },
          price \in (IF i = 1 THEN { NoNumber, <<100>>, <<150>> }
                     ELSE { NoNumber, <<100>> }) }

RawBatches(n) ==
    { f \in [1..n -> UNION { RawListingsAt(i) : i \in 1..n }] :
          \A i \in 1..n : f[i] \in RawListingsAt(i) }

\* the raw listings are objects on the heap, and the raw list holds them in
\* their order
InitPipeline ==
    /\ \E n \in 0..MaxPipeline : hHeap \in RawBatches(n)
    /\ hList = [i \in 1..Len(hHeap) |-> i]
    /\ hArg = <<>>
    /\ hArg0 = <<>>
    /\ hHeap0 = <<>>
    /\ hErr = "none"
    /\ hPc = "raw"
    /\ IdleIdentity
    /\ IdleDedup
    /\ IdleValuation
    /\ IdleAlerts
    /\ IdleTokens
    /\ IdleRetry
    /\ IdleSort

\* what a call of a stage leaves
StageDone(result, pc) ==
    /\ hHeap' = result.heap
    /\ hArg' = result.arg
    /\ hList' = IF result.raised = "none" THEN result.out ELSE hList
    /\ hErr' = result.raised
    /\ hArg0' = hList
    /\ hHeap0' = hHeap
    /\ hPc' = pc
    /\ UNCHANGED notPipeVars

\* listings = ensure_listing_ids(listings)
IdentifyStage ==
    /\ hPc = "raw"
    /\ \E result \in {EnsureListingIdsOnHeap(hHeap, hList)} :
           StageDone(result, "identified")

\* listings = dedupe_listings(listings), on raw or on identified listings
DedupeStage ==
    /\ hPc \in {"raw", "identified"}
    /\ \E result \in {DedupeListingsOnHeap(hHeap, hList)} :
           StageDone(result, "deduped")

\* listings = score_listings(listings), on raw or on deduplicated listings
ScoreStage ==
    /\ hPc \in {"raw", "deduped"}
    /\ \E result \in {ScoreListingsOnHeap(hHeap, hList)} :
           StageDone(result, "scored")

NextPipeline == IdentifyStage \/ DedupeStage \/ ScoreStage

SpecPipeline == InitPipeline /\ [][NextPipeline]_vars

(***************************************************************************)
(* fretscout/ebay_auth.py.  A token is the number of its place in the list *)
(* of the tokens the server has minted; time is in seconds.  The in-memory *)
(* cache is a function from cache keys to entries, the disk cache file is  *)
(* absent (<<>>) or holds one payload.  The credentials are configured.    *)
(***************************************************************************)
\* "https://api.ebay.com/oauth/api_scope", written by its last segment
EBAY_SCOPE_DEFAULT == <<"a","p","i","_","s","c","o","p","e">>
EBAY_ENV_PRODUCTION == <<"p","r","o","d","u","c","t","i","o","n">>
EBAY_ENV_SANDBOX == <<"s","a","n","d","b","o","x">>
EXPIRY_BUFFER_SECONDS == 120

\* get_ebay_env() when the secret EBAY_ENV has this value
get_ebay_env(secret) ==
    [value |-> Lower(Strip(IF Truthy(secret) THEN secret
                           ELSE EBAY_ENV_PRODUCTION)),
     raised |-> IF Lower(Strip(IF Truthy(secret) THEN secret
                               ELSE EBAY_ENV_PRODUCTION))
                       \in {EBAY_ENV_PRODUCTION, EBAY_ENV_SANDBOX}
                THEN "none" ELSE "ValueError"]

\* tuple(scope.strip() for scope in scopes if scope.strip())
StrippedScopes(scopes) ==
    SelectSeq([i \in 1..Len(scopes) |-> Strip(scopes[i])],
              LAMBDA scope : scope # <<>>)

\* _normalize_scopes(scopes): None and the empty list are both <<>>
normalize_scopes(scopes) ==
    IF scopes = <<>> THEN <<EBAY_SCOPE_DEFAULT>>
    ELSE IF StrippedScopes(scopes) = <<>> THEN <<EBAY_SCOPE_DEFAULT>>
    ELSE StrippedScopes(scopes)

\* the cache key (env, scopes_tuple)
CacheKey(env, scopes_tuple) == [env |-> env, scopes |-> scopes_tuple]

\* _TokenCacheEntry, without token_type
TokenCacheEntry(token, expires_at, scopes, env) ==
    [token |-> token, expires_at |-> expires_at, scopes |-> scopes, env |-> env]

\* _load_disk_cache that does not compare the scopes of the payload
LoadDiskCacheAnyScopes(disk, cache_key, now, readable) ==
    IF ~readable \/ disk = <<>> THEN <<>>
    ELSE IF disk[1].env # cache_key.env THEN <<>>
    ELSE IF disk[1].expires_at - now <= EXPIRY_BUFFER_SECONDS THEN <<>>
    ELSE <<TokenCacheEntry(disk[1].token, disk[1].expires_at,
                           cache_key.scopes, cache_key.env)>>

\* _load_disk_cache(cache_key, now): <<>> is None; reading the file raises
\* when it is not readable, and the exception is caught
load_disk_cache(disk, cache_key, now, readable) ==
    IF ~readable \/ disk = <<>> THEN <<>>
    ELSE IF disk[1].env # cache_key.env THEN <<>>
    ELSE IF disk[1].scopes # cache_key.scopes THEN <<>>
    ELSE IF disk[1].expires_at - now <= EXPIRY_BUFFER_SECONDS THEN <<>>
    ELSE <<TokenCacheEntry(disk[1].token, disk[1].expires_at,
                           cache_key.scopes, cache_key.env)>>

\* _save_disk_cache(token_entry): writing raises when the file is not
\* writable, and the exception is caught
save_disk_cache(disk, token_entry, writable) ==
    IF writable THEN <<token_entry>> ELSE disk

\* _request_new_token(env, scopes): the server mints a token that expires
\* in expires_in seconds, or the request fails (expires_in 0)
request_new_token(minted, env, scopes, now, expires_in) ==
    IF expires_in = 0 THEN [raised |-> "RuntimeError", entry |-> <<>>]
    ELSE [raised |-> "none",
          entry |-> <<TokenCacheEntry(Len(minted) + 1, now + expires_in,
                                      scopes, env)>>]

\* the memory test without the expiry buffer
ServedFromMemoryUntilExpiry(cache, cache_key, now) ==
    /\ cache_key \in DOMAIN cache
    /\ cache[cache_key].expires_at - now > 0

\* cached and cached.expires_at - now > _EXPIRY_BUFFER_SECONDS
ServedFromMemory(cache, cache_key, now) ==
    /\ cache_key \in DOMAIN cache
    /\ cache[cache_key].expires_at - now > EXPIRY_BUFFER_SECONDS

\* what a call leaves and returns
TokenResult(cache, disk, minted, token, requested, raised) ==
    [cache |-> cache, disk |-> disk, minted |-> minted, token |-> token,
     requested |-> requested, raised |-> raised]

\* the end of get_ebay_access_token without "_token_cache[cache_key] =
\* token_entry"
TokenFromRequestNotKept(cache, disk, minted, cache_key, writable, request) ==
    IF request.raised # "none"
    THEN TokenResult(cache, disk, minted, 0, TRUE, request.raised)
    ELSE TokenResult(cache,
                     save_disk_cache(disk, request.entry[1], writable),
                     Append(minted, request.entry[1]),
                     request.entry[1].token, TRUE, "none")

\* the end of get_ebay_access_token, the token requested
TokenFromRequest(cache, disk, minted, cache_key, writable, request) ==
    IF request.raised # "none"
    THEN TokenResult(cache, disk, minted, 0, TRUE, request.raised)
    ELSE TokenResult((cache_key :> request.entry[1]) @@ cache,
                     save_disk_cache(disk, request.entry[1], writable),
                     Append(minted, request.entry[1]),
                     request.entry[1].token, TRUE, "none")

\* get_ebay_access_token after the memory test failed
TokenFromDisk(cache, disk, minted, now, cache_key, expires_in, writable, loaded) ==
    IF loaded # <<>>
    THEN TokenResult((cache_key :> loaded[1]) @@ cache, disk, minted,
                     loaded[1].token, FALSE, "none")
    ELSE TokenFromRequest(cache, disk, minted, cache_key, writable,
                          request_new_token(minted, cache_key.env,
                                            cache_key.scopes, now, expires_in))

\* get_ebay_access_token from "cached = _token_cache.get(cache_key)" on
TokenForKey(cache, disk, minted, now, cache_key, expires_in, readable, writable) ==
    IF ServedFromMemory(cache, cache_key, now)
    THEN TokenResult(cache, disk, minted, cache[cache_key].token, FALSE, "none")
    ELSE TokenFromDisk(cache, disk, minted, now, cache_key, expires_in, writable,
                       load_disk_cache(disk, cache_key, now, readable))

\* get_ebay_access_token(scopes), with the secret EBAY_ENV, the answer of the
\* server and the state of the disk (the file can be read, and written) as
\* the call finds them
get_ebay_access_token(cache, disk, minted, now, scopes, env, expires_in, readable, writable) ==
    IF env.raised # "none"
    THEN TokenResult(cache, disk, minted, 0, FALSE, env.raised)
    ELSE TokenForKey(cache, disk, minted, now,
                     CacheKey(env.value, normalize_scopes(scopes)),
                     expires_in, readable, writable)

(***************************************************************************)
(* Calls of get_ebay_access_token and of clear_token_cache, and time.      *)
(***************************************************************************)
\* the values of the secret EBAY_ENV
EnvSecrets == { None, <<" ","S","a","n","d","b","o","x">>, <<"d","e","v">> }

\* the scopes arguments: none, a blank scope, a scope, a scope and a blank
ScopeArguments ==
    { <<>>, << <<" ">> >>, << <<" ","r"," ">> >>, << <<"r">>, <<" ">> >> }

\* expires_in of the answer of the server: within the expiry buffer or
\* beyond it; 0 is a request that fails
ExpiresIn == { 0, 100, 300 }

\* the seconds that pass between two calls: after them a token of 300 seconds
\* has exactly the expiry buffer left
Passages == { 180 }

\* the token a caller last got for the key, or 0
HeldFor(held, cache_key) ==
    IF cache_key \in DOMAIN held THEN held[cache_key] ELSE 0

\* the entry of the memory cache for the key, or <<>>
EntryFor(cache, cache_key) ==
    IF cache_key \in DOMAIN cache THEN <<cache[cache_key]>> ELSE <<>>

InitTokens ==
    /\ tNow = 0
    /\ tCache = <<>>
    /\ tDisk = <<>>
    /\ tMinted = <<>>
    /\ tHeld = <<>>
    /\ tCleared = {}
    /\ tLast = <<>>
    /\ tSteps = 0
    /\ IdleIdentity
    /\ IdleDedup
    /\ IdleValuation
    /\ IdleAlerts
    /\ IdlePipeline
    /\ IdleRetry
    /\ IdleSort

\* what the call leaves; tLast keeps what the call found and what it did
TokenCallDone(result, cache_key, readable) ==
    /\ tCache' = result.cache
    /\ tDisk' = result.disk
    /\ tMinted' = result.minted
    /\ tHeld' = IF result.raised = "none"
                THEN (cache_key :> result.token) @@ tHeld ELSE tHeld
    /\ tCleared' = IF result.raised = "none"
                   THEN tCleared \ {cache_key} ELSE tCleared
    /\ tLast' = <<[key |-> cache_key, now |-> tNow, token |-> result.token,
                   requested |-> result.requested, raised |-> result.raised,
                   held |-> HeldFor(tHeld, cache_key),
                   cleared |-> cache_key \in tCleared,
                   memory |-> EntryFor(tCache, cache_key),
                   disk |-> tDisk,
                   readable |-> readable]>>

\* token = get_ebay_access_token(scopes); the disk works during the call, or
\* reading and writing the file both raise
GetEbayAccessToken ==
    /\ tSteps < MaxTokenSteps
    /\ \E secret \in EnvSecrets, scopes \in ScopeArguments,
          expires_in \in ExpiresIn, works \in BOOLEAN :
       \E result \in {get_ebay_access_token(tCache, tDisk, tMinted, tNow,
                             scopes, get_ebay_env(secret), expires_in,
                             works, works)} :
           TokenCallDone(result,
                         CacheKey(get_ebay_env(secret).value,
                                  normalize_scopes(scopes)),
                         works)
    /\ tSteps' = tSteps + 1
    /\ UNCHANGED tNow
    /\ UNCHANGED notTokenVars

\* clear_token_cache()
ClearTokenCache ==
    /\ tSteps < MaxTokenSteps
    /\ tCache' = <<>>
    /\ tCleared' = DOMAIN tHeld
    /\ tLast' = <<>>
    /\ tSteps' = tSteps + 1
    /\ UNCHANGED <<tNow, tDisk, tMinted, tHeld>>
    /\ UNCHANGED notTokenVars

\* time.time() goes on between two calls
TimePasses ==
    /\ tSteps < MaxTokenSteps
    /\ \E seconds \in Passages : tNow' = tNow + seconds
    /\ tLast' = <<>>
    /\ tSteps' = tSteps + 1
    /\ UNCHANGED <<tCache, tDisk, tMinted, tHeld, tCleared>>
    /\ UNCHANGED notTokenVars

NextTokens ==
    GetEbayAccessToken \/ ClearTokenCache \/ TimePasses

SpecTokens == InitTokens /\ [][NextTokens]_vars

(***************************************************************************)
(* fretscout/sources/ebay.py: _execute_request_with_retry.  What urlopen   *)
(* and the read of the body do in an attempt is drawn from Outcomes.       *)
(***************************************************************************)
\* _BACKOFF_SECONDS, in milliseconds
BACKOFF_SECONDS == <<500, 1000, 2000>>

\* the backoffs the loop goes through: (0.0,) + _BACKOFF_SECONDS
LoopBackoffs == <<0>> \o BACKOFF_SECONDS

\* every status of the server side taken as one to retry
RetryableAnyServerError(code) == code = 429 \/ code >= 500

\* exc.code in {429, 500, 502, 503, 504}
Retryable(code) == code \in {429, 500, 502, 503, 504}

\* the body is read, the server answers with an error status, the
\* connection cannot be made, or the response breaks off while it is read
\* (an exception that is neither an HTTPError nor a URLError)
Outcomes ==
    { [kind |-> "ok", code |-> 200] }
        \cup { [kind |-> "HTTPError", code |-> c] :
                   c \in {400, 404, 429, 500, 501, 502, 503, 504} }
        \cup { [kind |-> "URLError", code |-> 0], [kind |-> "OSError", code |-> 0] }

RuntimeErrors ==
    { "RuntimeError: failed (status)", "RuntimeError: failed to connect",
      "RuntimeError: failed after retries" }

\* where the loop is after an attempt with this outcome: the body returned or
\* an exception raised ("done"), the next iteration ("loop"), or the
\* statements after the loop ("after")
AfterAttempt(attempt, outcome) ==
    IF outcome.kind = "ok" THEN "done"
    ELSE IF outcome.kind = "HTTPError" /\ Retryable(outcome.code)
    THEN (IF attempt = Len(LoopBackoffs) THEN "after" ELSE "loop")
    ELSE IF outcome.kind = "HTTPError" THEN "done"
    ELSE IF outcome.kind = "URLError" THEN "after"
    ELSE "done"

\* what the attempt returns or raises
AttemptResult(outcome) ==
    IF outcome.kind = "ok" THEN "body"
    ELSE IF outcome.kind = "HTTPError" /\ Retryable(outcome.code) THEN "none"
    ELSE IF outcome.kind = "HTTPError" THEN "RuntimeError: failed (status)"
    ELSE IF outcome.kind = "URLError" THEN "none"
    ELSE "OSError"

\* last_error after the attempt
LastErrorAfter(last_error, outcome) ==
    IF outcome.kind = "HTTPError" /\ Retryable(outcome.code) THEN <<outcome>>
    ELSE IF outcome.kind = "URLError" THEN <<outcome>>
    ELSE last_error

\* the statements after the loop
RaiseAfterLoop(last_error) ==
    IF last_error # <<>> /\ last_error[1].kind = "HTTPError"
    THEN "RuntimeError: failed (status)"
    ELSE IF last_error # <<>> /\ last_error[1].kind = "URLError"
    THEN "RuntimeError: failed to connect"
    ELSE "RuntimeError: failed after retries"

InitRetry ==
    /\ rAttempt = 0
    /\ rOutcomes = <<>>
    /\ rLastError = <<>>
    /\ rSlept = <<>>
    /\ rResult = "none"
    /\ rPc = "loop"
    /\ IdleIdentity
    /\ IdleDedup
    /\ IdleValuation
    /\ IdleAlerts
    /\ IdlePipeline
    /\ IdleTokens
    /\ IdleSort

\* one iteration of the loop: the sleep before every attempt but the first,
\* and the request
RequestAttempt ==
    /\ rPc = "loop"
    /\ rAttempt < Len(LoopBackoffs)
    /\ rAttempt' = rAttempt + 1
    /\ rSlept' = IF rAttempt > 0 THEN Append(rSlept, LoopBackoffs[rAttempt + 1])
                 ELSE rSlept
    /\ \E outcome \in Outcomes :
           /\ rOutcomes' = Append(rOutcomes, outcome)
           /\ rLastError' = LastErrorAfter(rLastError, outcome)
           /\ rResult' = AttemptResult(outcome)
           /\ rPc' = AfterAttempt(rAttempt + 1, outcome)
    /\ UNCHANGED notRetryVars

\* the statements after the loop, reached by break and at the end of the loop
AfterLoop ==
    /\ rPc = "after"
    /\ rResult' = RaiseAfterLoop(rLastError)
    /\ rPc' = "done"
    /\ UNCHANGED <<rAttempt, rOutcomes, rLastError, rSlept>>
    /\ UNCHANGED notRetryVars

NextRetry == RequestAttempt \/ AfterLoop

SpecRetry == InitRetry /\ [][NextRetry]_vars

\* urlopen returns or raises within its timeout and a sleep ends, so the
\* function takes its next step
SpecRetryLive == SpecRetry /\ WF_vars(NextRetry)

(***************************************************************************)
(* fretscout/sort_filter.py: sort_listings.  A sort key is the sequence of *)
(* the elements of the tuple of the source; False and True are 0 and 1, a  *)
(* float is a record that is infinite or has a whole value.                *)
(***************************************************************************)
\* _normalize_confidence(value): None unless the stripped value has a letter
normalize_confidence(value) ==
    IF value = None THEN None
    ELSE IF Lower(Strip(value)) = <<>> THEN None
    ELSE Lower(Strip(value))

\* confidence_rank.get(confidence, 3)
ConfidenceRank(confidence) ==
    IF confidence = <<"h","i","g","h">> THEN 0
    ELSE IF confidence = <<"m","e","d","i","u","m">> THEN 1
    ELSE IF confidence = <<"l","o","w">> THEN 2
    ELSE 3

Finite(n) == [inf |-> FALSE, value |-> n]

\* float("inf")
Infinite == [inf |-> TRUE, value |-> 0]

\* a < b on two floats
NumLess(a, b) ==
    IF a.inf THEN FALSE ELSE IF b.inf THEN TRUE ELSE a.value < b.value

\* the score as it is
ScoreKeyAscending(listing) ==
    IF listing.deal_score # NoNumber THEN Finite(listing.deal_score[1])
    ELSE Finite(0)

\* -score if score is not None else 0
ScoreKey(listing) ==
    IF listing.deal_score # NoNumber THEN Finite(0 - listing.deal_score[1])
    ELSE Finite(0)

\* price if price is not None else float("inf")
PriceKey(listing) ==
    IF listing.price # NoNumber THEN Finite(listing.price[1]) ELSE Infinite

\* a bool or an int as an element of a key
Whole(flag) == Finite(IF flag THEN 1 ELSE 0)

\* sort_key(pair) of mode "Deal Score (best→worst)"
DealSortKey(index, listing) ==
    << Finite(ConfidenceRank(normalize_confidence(listing.deal_confidence))),
       Whole(listing.deal_score = NoNumber),
       ScoreKey(listing),
       Whole(listing.price = NoNumber),
       PriceKey(listing),
       Finite(index) >>

\* the key of mode "Price (low→high)"
PriceSortKey(index, listing) ==
    << Whole(listing.price = NoNumber), PriceKey(listing), Finite(index) >>

\* a < b on two tuples of the same length, from element k on
RECURSIVE TupleLess(_, _, _)
TupleLess(a, b, k) ==
    IF k > Len(a) THEN FALSE
    ELSE IF NumLess(a[k], b[k]) THEN TRUE
    ELSE IF NumLess(b[k], a[k]) THEN FALSE
    ELSE TupleLess(a, b, k + 1)

\* the pair put into a list of pairs sorted by key, after the pairs that are
\* not greater
RECURSIVE InsertPair(_, _)
InsertPair(sorted, pair) ==
    IF sorted = <<>> THEN <<pair>>
    ELSE IF TupleLess(pair.key, sorted[Len(sorted)].key, 1)
    THEN Append(InsertPair(SubSeq(sorted, 1, Len(sorted) - 1), pair),
                sorted[Len(sorted)])
    ELSE Append(sorted, pair)

\* sorted(indexed, key=...): the stable sort of the pairs by their keys
RECURSIVE SortedPairs(_, _)
SortedPairs(pairs, k) ==
    IF k = 0 THEN <<>>
    ELSE InsertPair(SortedPairs(pairs, k - 1), pairs[k])

\* [listing for _, listing in sorted(indexed, key=...)]
ListingsOf(pairs) == [i \in 1..Len(pairs) |-> pairs[i].listing]

\* the modes, the arrow of the source written ->
ModeRelevance == "Relevance"
ModePrice == "Price (low->high)"
ModeDealScore == "Deal Score (best->worst)"

\* sort_listings(listings, sort_mode); enumerate counts from 0
sort_listings(listings, sort_mode) ==
    IF sort_mode = ModeRelevance THEN listings
    ELSE IF sort_mode = ModePrice
    THEN ListingsOf(SortedPairs([i \in 1..Len(listings) |->
                                     [key |-> PriceSortKey(i - 1, listings[i]),
                                      listing |-> listings[i]]],
                                Len(listings)))
    ELSE IF sort_mode = ModeDealScore
    THEN ListingsOf(SortedPairs([i \in 1..Len(listings) |->
                                     [key |-> DealSortKey(i - 1, listings[i]),
                                      listing |-> listings[i]]],
                                Len(listings)))
    ELSE listings

(***************************************************************************)
(* Inputs of sort_listings: scored listings, told apart by their ids.      *)
(***************************************************************************)
MaxSort == 3    \* listings handed to sort_listings

SortProfile(deal_confidence, deal_score, price) ==
    [deal_confidence |-> deal_confidence, deal_score |-> deal_score,
     price |-> price]

\* confidences as score_listings writes them, in other spellings, absent,
\* blank and unknown; listings that differ in one element of the key
SortProfiles ==
    { SortProfile(<<"h","i","g","h">>, <<90>>, <<100>>),
      SortProfile(<<" ","H","i","g","h">>, <<90>>, <<200>>),
      SortProfile(<<"h","i","g","h">>, <<90>>, NoNumber),
      SortProfile(<<"h","i","g","h">>, <<50>>, <<100>>),
      SortProfile(<<"h","i","g","h">>, NoNumber, <<100>>),
      SortProfile(<<"M","e","d","i","u","m">>, <<90>>, <<100>>),
      SortProfile(<<"l","o","w">>, <<90>>, <<100>>),
      SortProfile(<<"l","o","w">>, <<0>>, NoNumber),
      SortProfile(None, <<90>>, <<100>>),
      SortProfile(<<" ">>, <<95>>, <<50>>),
      SortProfile(<<"x">>, <<90>>, <<100>>),
      SortProfile(None, NoNumber, NoNumber) }

\* the listing at position i of the list
SortListing(i, profile) ==
    [listing_id |-> <<"l", Digits[i + 1]>>,
     deal_confidence |-> profile.deal_confidence,
     deal_score |-> profile.deal_score, price |-> profile.price]

SortBatches(n) ==
    { [i \in 1..n |-> SortListing(i, f[i])] : f \in [1..n -> SortProfiles] }

\* the modes of the selectbox, and a mode sort_listings does not know
SortModes == { ModeRelevance, ModePrice, ModeDealScore, "Newest" }

InitSort ==
    /\ \E n \in 0..MaxSort : sIn \in SortBatches(n)
    /\ sMode \in SortModes
    /\ sOut = <<>>
    /\ sPc = "start"
    /\ IdleIdentity
    /\ IdleDedup
    /\ IdleValuation
    /\ IdleAlerts
    /\ IdlePipeline
    /\ IdleTokens
    /\ IdleRetry

\* listings = sort_listings(listings, sort_mode=sort_mode)
SortListings ==
    /\ sPc = "start"
    /\ sOut' = sort_listings(sIn, sMode)
    /\ sPc' = "sorted"
    /\ UNCHANGED <<sIn, sMode>>
    /\ UNCHANGED notSortVars

NextSort == SortListings

SpecSort == InitSort /\ [][NextSort]_vars

(***************************************************************************)
(* Claims about score_listings, checked under SpecValuation.  The claims   *)
(* are stated on the prices as numbers: twice a price and twice a median   *)
(* of the batches are natural numbers, and a float that is a whole number  *)
(* of halves or of tenths is read back as that number.                     *)
(***************************************************************************)
\* score_listings was called and returned a list
ScoreReturned == vPc = "scored" /\ vErr = "none"

\* the prices of the batch that are present, as numbers
RECURSIVE NatPrices(_)
NatPrices(listings) ==
    IF listings = <<>> THEN <<>>
    ELSE Head(listings).price \o NatPrices(Tail(listings))

\* the number of elements of a list of numbers that are below x, and that are
\* at most x
CountBelow(prices, x) == Cardinality({ i \in 1..Len(prices) : prices[i] < x })

CountAtMost(prices, x) == Cardinality({ i \in 1..Len(prices) : prices[i] <= x })

\* the k-th smallest element of a list of numbers
Ranked(prices, k) ==
    CHOOSE x \in Range(prices) :
        CountBelow(prices, x) < k /\ k <= CountAtMost(prices, x)

\* twice the median of a list of numbers
TwiceMedian(prices) ==
    IF Len(prices) % 2 = 1
    THEN 2 * Ranked(prices, Len(prices) \div 2 + 1)
    ELSE Ranked(prices, Len(prices) \div 2)
             + Ranked(prices, Len(prices) \div 2 + 1)

\* the float is a whole number n of units of 1/d (d is 2 or 10), and is not
\* negative
IsUnits(x, d, n) == x = FDiv(FloatOfNat(n), FloatOfNat(d))

\* the batch has a benchmark
HasBenchmark == Len(NatPrices(vIn)) >= 3

\* the label the claim gives a price p against a benchmark of m halves
ClaimedLabel(p, m) ==
    IF 20 * p <= 9 * m THEN Good
    ELSE IF 20 * p >= 11 * m THEN High
    ELSE Fair

\* C11: when the batch has at least 3 prices, every priced listing of the
\* returned list has the median of the prices as its reference price and the
\* label Good when its price is at most 90% of the median, High when it is at
\* least 110% of it and Fair in between
C11_MedianLabels ==
    (ScoreReturned /\ HasBenchmark) =>
        \A i \in 1..Len(vIn) :
            vIn[i].price # NoNumber =>
                /\ vOut[i].deal_reference_price # NoNumber
                /\ IsUnits(vOut[i].deal_reference_price[1], 2,
                           TwiceMedian(NatPrices(vIn)))
                /\ vOut[i].deal_label
                       = ClaimedLabel(vIn[i].price[1],
                                      TwiceMedian(NatPrices(vIn)))

\* score_listings was called and has returned or raised
ScoreFinished == vPc = "scored"

\* the four deal fields of a returned listing are absent, and are present
DealFieldsAbsent(listing) ==
    /\ listing.deal_label = None
    /\ listing.deal_score = NoNumber
    /\ listing.deal_reference_price = NoNumber
    /\ listing.deal_percent_diff = NoNumber

DealFieldsPresent(listing) ==
    /\ listing.deal_label \in {Good, Fair, High}
    /\ listing.deal_score # NoNumber
    /\ listing.deal_reference_price # NoNumber
    /\ listing.deal_percent_diff # NoNumber

\* C12: when fewer than 3 listings of the batch have a price, score_listings
\* returns the batch with the four deal fields absent in every listing, the
\* priced ones included
C12_NoBenchmarkNoDealFields ==
    (ScoreFinished /\ Len(NatPrices(vIn)) < 3) =>
        /\ vErr = "none"
        /\ Len(vOut) = Len(vIn)
        /\ \A i \in 1..Len(vOut) : DealFieldsAbsent(vOut[i])

\* a batch of three listings of which two have a price was scored
C12_Witness ==
    /\ ScoreReturned
    /\ Len(vIn) = 3
    /\ Len(NatPrices(vIn)) = 2
    /\ \A i \in 1..Len(vOut) : DealFieldsAbsent(vOut[i])

\* C13: when the batch has at least 3 prices, a listing of the returned list
\* has a label if and only if it has a price, and a listing without a price
\* has no score, reference price or percent difference either
C13_LabelIffPrice ==
    (ScoreReturned /\ HasBenchmark) =>
        \A i \in 1..Len(vOut) :
            /\ vOut[i].deal_label # None <=> vOut[i].price # NoNumber
            /\ vOut[i].price = NoNumber => DealFieldsAbsent(vOut[i])

\* a batch of three priced listings and one without a price was scored
C13_Witness ==
    /\ ScoreReturned
    /\ Len(NatPrices(vIn)) = 3
    /\ \E i \in 1..Len(vOut) :
           vOut[i].price = NoNumber /\ vOut[i].deal_label = None
    /\ \E i \in 1..Len(vOut) :
           vOut[i].price # NoNumber /\ vOut[i].deal_label # None

\* C14: in every returned listing the four deal fields are all present or all
\* absent, and deal_confidence is present
C14_DealFieldsTogether ==
    ScoreReturned =>
        \A i \in 1..Len(vOut) :
            /\ DealFieldsPresent(vOut[i]) \/ DealFieldsAbsent(vOut[i])
            /\ vOut[i].deal_confidence # None

\* a returned list has a listing with the four fields and one without them
C14_Witness ==
    /\ ScoreReturned
    /\ \E i \in 1..Len(vOut) : DealFieldsPresent(vOut[i])
    /\ \E i \in 1..Len(vOut) : DealFieldsAbsent(vOut[i])
    /\ \A i \in 1..Len(vOut) : vOut[i].deal_confidence # None

\* the confidence the claim gives a listing
ClaimedConfidence(listing) ==
    IF NonBlank(listing.title) /\ NonBlank(listing.condition)
           /\ listing.price # NoNumber
    THEN <<"H","i","g","h">>
    ELSE IF NonBlank(listing.title) /\ listing.price # NoNumber
    THEN <<"M","e","d","i","u","m">>
    ELSE <<"L","o","w">>

\* C15: every returned listing has the deal_confidence High, Medium or Low
\* that its own title, condition and price give it, whatever the other
\* listings of the batch are
C15_ConfidenceLevels ==
    ScoreReturned =>
        \A i \in 1..Len(vOut) :
            vOut[i].deal_confidence = ClaimedConfidence(vIn[i])

\* C16: two batches that differ in shipping values only get the same label,
\* score, reference price, percent difference and confidence in every
\* position (and score_listings raises for both or for neither)
C16_ShippingHasNoEffect ==
    vPc = "compared" =>
        /\ vAltErr = vErr
        /\ Len(vAltOut) = Len(vOut)
        /\ \A i \in 1..Len(vOut) :
               /\ vAltOut[i].deal_label = vOut[i].deal_label
               /\ vAltOut[i].deal_score = vOut[i].deal_score
               /\ vAltOut[i].deal_reference_price = vOut[i].deal_reference_price
               /\ vAltOut[i].deal_percent_diff = vOut[i].deal_percent_diff
               /\ vAltOut[i].deal_confidence = vOut[i].deal_confidence

\* a batch with a benchmark was scored twice, the second time with another
\* shipping value in a listing that has a label
C16_Witness ==
    /\ vPc = "compared"
    /\ vErr = "none"
    /\ \E i \in 1..Len(vOut) :
           /\ vAlt[i].shipping # vIn[i].shipping
           /\ vAlt[i].shipping # NoNumber
           /\ vOut[i].deal_label # None
           /\ vAltOut[i].deal_score = vOut[i].deal_score

\* C17: for every batch score_listings returns a list of the same length in
\* which the listing at each position has the listing_id, title and price
\* of the input listing at that position
C17_SameLengthAndOrder ==
    ScoreFinished =>
        /\ vErr = "none"
        /\ Len(vOut) = Len(vIn)
        /\ \A i \in 1..Len(vIn) :
               /\ vOut[i].listing_id = vIn[i].listing_id
               /\ vOut[i].title = vIn[i].title
               /\ vOut[i].price = vIn[i].price

\* the tenths a score may have for a price p against a benchmark of m
\* halves: 1000 at or below the benchmark, 0 at or above twice the
\* benchmark, and in between a whole number within 1/2 of 2000 (m - p) / m
ClaimedTenths(p, m) ==
    IF 2 * p <= m THEN {1000}
    ELSE IF p >= m THEN {0}
    ELSE { t \in { (2000 * (m - p)) \div m, (2000 * (m - p)) \div m + 1 } :
               /\ 2 * t * m - 4000 * (m - p) <= m
               /\ 4000 * (m - p) - 2 * t * m <= m }

\* C18: a score that is present is 100 minus the percent difference rounded
\* to one decimal and clamped to 0..100: 100 at or below the benchmark, 0 at
\* or above twice the benchmark, and it does not increase with the price
C18_ScoreRoundedAndClamped ==
    ScoreReturned =>
        \A i \in 1..Len(vOut) :
            vOut[i].deal_score # NoNumber =>
                /\ FLessEq(FloatZero, vOut[i].deal_score[1])
                /\ FLessEq(vOut[i].deal_score[1], FloatOfNat(100))
                /\ \E t \in ClaimedTenths(vIn[i].price[1],
                                          TwiceMedian(NatPrices(vIn))) :
                       IsUnits(vOut[i].deal_score[1], 10, t)
                /\ \A j \in 1..Len(vOut) :
                       (vOut[j].deal_score # NoNumber
                            /\ vIn[i].price[1] <= vIn[j].price[1])
                           => FLessEq(vOut[j].deal_score[1],
                                      vOut[i].deal_score[1])

\* a returned list has a listing below the benchmark with the score 100 and
\* one between the benchmark and twice the benchmark with a score between 0
\* and 100
C18_Witness ==
    /\ ScoreReturned
    /\ HasBenchmark
    /\ \E i \in 1..Len(vOut) :
           /\ vOut[i].deal_score # NoNumber
           /\ 2 * vIn[i].price[1] < TwiceMedian(NatPrices(vIn))
           /\ IsUnits(vOut[i].deal_score[1], 10, 1000)
    /\ \E i \in 1..Len(vOut) :
           /\ vOut[i].deal_score # NoNumber
           /\ 2 * vIn[i].price[1] > TwiceMedian(NatPrices(vIn))
           /\ FLess(FloatZero, vOut[i].deal_score[1])
           /\ FLess(vOut[i].deal_score[1], FloatOfNat(100))

\* C19: score_listings returns for every batch of listings whose prices are
\* absent or not negative, and never raises
C19_NeverRaises ==
    ScoreFinished => vErr = "none"

(***************************************************************************)
(* Claims about generate_alert_events, checked under SpecAlerts.  The      *)
(* alerts of a call have different ids and the listings have different     *)
(* ids, so an event names its pair.                                        *)
(***************************************************************************)
\* generate_alert_events was called and has returned or raised
AlertsFinished == aPc \in {"generated", "again"}

\* the insert of the last call that storage refused, or 0
LastFail == IF aFail = <<>> THEN 0 ELSE aFail[Len(aFail)]

\* the rows the last call added to the table
NewRows == SubSeq(aTable, Len(aBefore) + 1, Len(aTable))

\* the number of events of a list that name this alert and this listing
EventsFor(events, alert, listing) ==
    Cardinality({ i \in 1..Len(events) :
                      /\ events[i].alert_id = alert.alert_id[1]
                      /\ events[i].listing_id = listing.listing_id })

\* the pair matches: the lowercased query is a substring of the lowercased
\* title, and max_price is absent or all_in_price is at most max_price
ClaimedMatch(alert, listing) ==
    /\ Contains(Lower(listing.title), Lower(alert.query))
    /\ \/ alert.max_price = NoNumber
       \/ /\ listing.all_in_price # NoNumber
          /\ listing.all_in_price[1] <= alert.max_price[1]

\* C20: one call of generate_alert_events whose inserts storage accepts adds
\* to the table and returns exactly one event for every pair of an alert and a listing that matches,
\* and none for any other pair
C20_OneEventPerMatchingPair ==
    AlertsFinished /\ LastFail = 0 =>
        \A a \in 1..Len(aAlerts) : \A l \in 1..Len(aListings) :
            /\ EventsFor(aOut, aAlerts[a], aListings[l])
                   = (IF ClaimedMatch(aAlerts[a], aListings[l]) THEN 1 ELSE 0)
            /\ EventsFor(NewRows, aAlerts[a], aListings[l])
                   = (IF ClaimedMatch(aAlerts[a], aListings[l]) THEN 1 ELSE 0)

\* C21: generate_alert_events returns for every alert and every listing
\* with a title, the listings without an all_in_price among them, when
\* storage accepts the inserts
C21_NeverRaises ==
    AlertsFinished /\ LastFail = 0 => aErr = "none"

\* the pairs of an alert and a listing that match, in the order of the loops
MatchingPairs(alerts, listings) ==
    SelectSeq([k \in 1..(Len(alerts) * Len(listings)) |->
                   <<((k - 1) \div Len(listings)) + 1,
                     ((k - 1) % Len(listings)) + 1>>],
              LAMBDA pair : ClaimedMatch(alerts[pair[1]], listings[pair[2]]))

\* no call so far had an insert refused
NoInsertRefused == \A c \in 1..Len(aFail) : aFail[c] = 0

\* C22: after n calls of generate_alert_events with the same alerts and
\* listings, none with a refused insert, the table holds n times as many
\* rows as there are matching pairs, the event ids are different and
\* increase, and the rows that were there before the last call are as they
\* were
C22_EventsAccumulate ==
    AlertsFinished /\ NoInsertRefused =>
        /\ Len(aTable) = Len(aFail) * Len(MatchingPairs(aAlerts, aListings))
        /\ \A i \in 1..Len(aTable) : \A j \in 1..Len(aTable) :
               i < j => aTable[i].event_id[1] < aTable[j].event_id[1]
        /\ SubSeq(aTable, 1, Len(aBefore)) = aBefore

\* the row names the pair
RowOfPair(row, pair) ==
    /\ row.alert_id = aAlerts[pair[1]].alert_id[1]
    /\ row.listing_id = aListings[pair[2]].listing_id

\* C23: when storage refuses the k-th insert of a call, the call raises the
\* error of storage, the k-1 rows inserted before it are in the table, one
\* for each of the first k-1 matching pairs in their order, after the rows
\* that were there before, and no row is there for a later pair
C23_FailedInsertKeepsEarlier ==
    AlertsFinished /\ LastFail > 0 =>
        /\ aErr = "sqlite3.Error"
        /\ Len(aTable) = Len(aBefore) + LastFail - 1
        /\ SubSeq(aTable, 1, Len(aBefore)) = aBefore
        /\ LastFail <= Len(MatchingPairs(aAlerts, aListings))
        /\ \A j \in 1..Len(NewRows) :
               RowOfPair(NewRows[j], MatchingPairs(aAlerts, aListings)[j])

\* the second insert of the second call is refused, after a first call that
\* added rows
C23_Witness ==
    /\ aPc = "again"
    /\ LastFail = 2
    /\ aErr = "sqlite3.Error"
    /\ Len(aBefore) >= 2
    /\ Len(aTable) = Len(aBefore) + 1

(***************************************************************************)
(* Claims about the objects of the pipeline, checked under SpecPipeline.   *)
(***************************************************************************)
\* a stage was called and has returned
StageReturned == hPc \in {"identified", "deduped", "scored"} /\ hErr = "none"

\* C24: after ensure_listing_ids, dedupe_listings or score_listings returns,
\* the list it was handed holds the same objects in the same order, and
\* every object of that list has the field values it had before the call
C24_StagesDoNotMutate ==
    StageReturned =>
        /\ hArg = hArg0
        /\ \A i \in 1..Len(hArg0) : hHeap[hArg0[i]] = hHeap0[hArg0[i]]

\* dedupe_listings returned, handed a list with a listing without an id,
\* and score_listings returned with a label on the listings it was handed:
\* the listings handed in still have no id and no label
C24_Witness ==
    /\ hPc = "scored"
    /\ hErr = "none"
    /\ Len(hArg0) >= MinPriced
    /\ \A i \in 1..Len(hList) : hHeap[hList[i]].deal_label # None
    /\ \A i \in 1..Len(hArg0) : hHeap[hArg0[i]].deal_label = None
    /\ \E a \in 1..Len(hHeap) : hHeap[a].listing_id = <<>>
    /\ \E i \in 1..Len(hArg0) : hHeap[hArg0[i]].listing_id = <<"e","b",":","7">>

(***************************************************************************)
(* Claims about get_ebay_access_token, checked under SpecTokens.  They are *)
(* stated on the state right after a call: tLast holds what the call found *)
(* and what it did.                                                        *)
(***************************************************************************)
\* get_ebay_access_token was just called
TokenCalled == tLast # <<>>

\* seconds of lifetime the token had left when the call was made
RemainingAtCall(token) == tMinted[token].expires_at - tLast[1].now

\* a caller got a token for the key of the call before, and the token had
\* more than the expiry buffer left when the call was made
HeldTokenFresh ==
    /\ tLast[1].held # 0
    /\ RemainingAtCall(tLast[1].held) > EXPIRY_BUFFER_SECONDS

\* the call returned the token got before and asked the server for none
HeldTokenServed ==
    /\ tLast[1].raised = "none"
    /\ tLast[1].token = tLast[1].held
    /\ ~tLast[1].requested

\* the disk cache file could be read and held the token got before
DiskYieldsHeld ==
    /\ tLast[1].readable
    /\ tLast[1].disk # <<>>
    /\ tLast[1].disk[1].token = tLast[1].held

\* C25 as stated: once a token was got for a pair of environment and scopes,
\* every later call for the pair made while the token has more than 120
\* seconds left returns that token and requests no new one
C25_HeldTokenAlwaysServed ==
    TokenCalled /\ HeldTokenFresh => HeldTokenServed

\* C25, amended: once a token was got for a pair of environment and scopes,
\* every later call for the pair made while the token has more than 120
\* seconds left returns that token and requests no new one, unless
\* clear_token_cache was called in between and the disk cache file does not
\* yield that token
C25_HeldTokenServedUnlessCleared ==
    TokenCalled /\ HeldTokenFresh /\ (~tLast[1].cleared \/ DiskYieldsHeld)
        => HeldTokenServed

\* a second call for the pair gets the token of the first from the memory
\* cache
C25_Witness ==
    /\ TokenCalled
    /\ HeldTokenFresh
    /\ ~tLast[1].cleared
    /\ tLast[1].memory # <<>>
    /\ HeldTokenServed

\* the payload of the disk cache file was minted for the key of the call
DiskForKey ==
    /\ tLast[1].disk # <<>>
    /\ tLast[1].disk[1].env = tLast[1].key.env
    /\ tLast[1].disk[1].scopes = tLast[1].key.scopes

\* a cache holds a token for the key of the call, and no token that a cache
\* holds for the key has more than the expiry buffer left
OnlyExpiringCached ==
    /\ tLast[1].memory # <<>> \/ DiskForKey
    /\ tLast[1].memory # <<>> =>
           tLast[1].memory[1].expires_at - tLast[1].now <= EXPIRY_BUFFER_SECONDS
    /\ DiskForKey =>
           tLast[1].disk[1].expires_at - tLast[1].now <= EXPIRY_BUFFER_SECONDS

\* C26: a token with at most 120 seconds left is served from neither cache:
\* a token a call returns without a request has more than 120 seconds
\* left, and a call that finds only such tokens for its pair requests a new
\* one and, when the server mints it, returns it and has it in the memory
\* cache under the key
C26_ExpiringTokenNotServed ==
    TokenCalled =>
        /\ tLast[1].raised = "none" /\ ~tLast[1].requested =>
               RemainingAtCall(tLast[1].token) > EXPIRY_BUFFER_SECONDS
        /\ OnlyExpiringCached =>
               /\ tLast[1].requested
               /\ tLast[1].raised = "none" =>
                      /\ tLast[1].token = Len(tMinted)
                      /\ tLast[1].token # tLast[1].held
                      /\ tCache[tLast[1].key].token = tLast[1].token

\* a token of 300 seconds is in both caches with exactly 120 seconds left,
\* and the call returns a new one
C26_Witness ==
    /\ TokenCalled
    /\ tLast[1].memory # <<>>
    /\ tLast[1].memory[1].expires_at - tLast[1].now = EXPIRY_BUFFER_SECONDS
    /\ DiskForKey
    /\ tLast[1].disk[1].token = tLast[1].memory[1].token
    /\ tLast[1].requested
    /\ tLast[1].raised = "none"
    /\ tCache[tLast[1].key].token = Len(tMinted)

\* C29: a call for a pair of environment and scopes never returns a token
\* that was minted for another environment or another tuple of scopes, and
\* the memory cache holds under a key only tokens minted for the key
C29_TokenOfOwnPair ==
    /\ TokenCalled /\ tLast[1].raised = "none" =>
           /\ tMinted[tLast[1].token].env = tLast[1].key.env
           /\ tMinted[tLast[1].token].scopes = tLast[1].key.scopes
    /\ \A cache_key \in DOMAIN tCache :
           /\ tMinted[tCache[cache_key].token].env = cache_key.env
           /\ tMinted[tCache[cache_key].token].scopes = cache_key.scopes

\* the disk cache file has a token of another pair with more than 120
\* seconds left, and the call gets a token of its own
C29_Witness ==
    /\ TokenCalled
    /\ tLast[1].raised = "none"
    /\ tLast[1].readable
    /\ tLast[1].disk # <<>>
    /\ ~DiskForKey
    /\ tLast[1].disk[1].expires_at - tLast[1].now > EXPIRY_BUFFER_SECONDS
    /\ tLast[1].requested

(***************************************************************************)
(* Claims about _execute_request_with_retry, checked under SpecRetryLive.  *)
(***************************************************************************)
\* the attempt failed with one of the statuses the claim names
FailedRetryably(outcome) ==
    outcome.kind = "HTTPError" /\ outcome.code \in {429, 500, 502, 503, 504}

\* the function has returned or raised
RequestEnded == rPc = "done"

\* what the attempts made so far and the end of the function have to be
RetryLoopAsClaimed ==
    /\ rAttempt = Len(rOutcomes)
    /\ rAttempt <= 4
    /\ \A k \in 1..(Len(rOutcomes) - 1) : FailedRetryably(rOutcomes[k])
    /\ rPc = "loop" =>
           /\ rResult = "none"
           /\ \A k \in 1..Len(rOutcomes) : FailedRetryably(rOutcomes[k])
    /\ RequestEnded =>
           /\ rAttempt >= 1
           /\ rResult = "body" <=> rOutcomes[rAttempt].kind = "ok"
           /\ rOutcomes[rAttempt].kind \in {"HTTPError", "URLError"}
                  => rResult \in RuntimeErrors
           /\ FailedRetryably(rOutcomes[rAttempt]) => rAttempt = 4

\* C27: the request loop makes at most 4 attempts and always ends; an
\* attempt after the first is made only when all attempts before it failed
\* with status 429, 500, 502, 503 or 504; the body of the first attempt that
\* succeeds is returned and no attempt follows it; another HTTP error status
\* or a connection error ends the loop at once with a RuntimeError; four
\* failures in a row with such a status end with a RuntimeError
C27_RetryLoopBoundedAndEnds ==
    /\ []RetryLoopAsClaimed
    /\ <>RequestEnded

\* four attempts failed with a status to retry, three backoffs were slept,
\* and the function raised RuntimeError
C27_Witness ==
    /\ RequestEnded
    /\ rAttempt = 4
    /\ \A k \in 1..4 : FailedRetryably(rOutcomes[k])
    /\ rSlept = BACKOFF_SECONDS
    /\ rResult \in RuntimeErrors

(***************************************************************************)
(* Claims about sort_listings, checked under SpecSort.                     *)
(***************************************************************************)
\* sort_listings was called and has returned
Sorted == sPc = "sorted"

\* the rank of the claim: high, medium, low, then absent and unknown
ClaimedRank(listing) ==
    IF listing.deal_confidence = None THEN 3
    ELSE IF Lower(Strip(listing.deal_confidence)) = <<"h","i","g","h">> THEN 0
    ELSE IF Lower(Strip(listing.deal_confidence)) = <<"m","e","d","i","u","m">> THEN 1
    ELSE IF Lower(Strip(listing.deal_confidence)) = <<"l","o","w">> THEN 2
    ELSE 3

\* the place a listing had in the list handed in
PlaceIn(listing) == CHOOSE i \in 1..Len(sIn) : sIn[i] = listing

\* a comes before b by the price and then by the place
BeforeByPrice(a, b) ==
    \/ a.price # NoNumber /\ b.price = NoNumber
    \/ /\ a.price # NoNumber /\ b.price # NoNumber
       /\ a.price[1] < b.price[1]
    \/ /\ (a.price = NoNumber /\ b.price = NoNumber) \/ a.price = b.price
       /\ PlaceIn(a) < PlaceIn(b)

\* a comes before b by the score, and then by the price and the place
BeforeByScore(a, b) ==
    \/ a.deal_score # NoNumber /\ b.deal_score = NoNumber
    \/ /\ a.deal_score # NoNumber /\ b.deal_score # NoNumber
       /\ a.deal_score[1] > b.deal_score[1]
    \/ /\ a.deal_score = b.deal_score
       /\ BeforeByPrice(a, b)

\* a comes before b in the order of the claim
ClaimedBefore(a, b) ==
    \/ ClaimedRank(a) < ClaimedRank(b)
    \/ ClaimedRank(a) = ClaimedRank(b) /\ BeforeByScore(a, b)

\* the returned list has every listing of the list handed in once
IsPermutation ==
    /\ Len(sOut) = Len(sIn)
    /\ \A i \in 1..Len(sIn) : \E j \in 1..Len(sOut) : sOut[j] = sIn[i]

\* C28: in mode "Deal Score (best->worst)" sort_listings returns a
\* permutation of the list in the order of the confidence rank, then scored
\* before unscored, then the higher score first, then priced before
\* unpriced, then the lower price first, then the place in the list; in mode
\* "Relevance" and in a mode it does not know it returns the list in its
\* order
C28_DealScoreOrder ==
    Sorted =>
        /\ sMode = ModeDealScore =>
               /\ IsPermutation
               /\ \A i \in 1..Len(sOut) : \A j \in 1..Len(sOut) :
                      i < j => ClaimedBefore(sOut[i], sOut[j])
        /\ sMode \in {ModeRelevance, "Newest"} => sOut = sIn

\* three listings of high confidence, the first without a score, the second
\* with the lower and the third with the higher score, are returned in the
\* reverse order
C28_Witness ==
    /\ Sorted
    /\ sMode = ModeDealScore
    /\ Len(sIn) = 3
    /\ \A i \in 1..3 : ClaimedRank(sIn[i]) = 0
    /\ sIn[1].deal_score = NoNumber
    /\ sIn[2].deal_score = <<50>>
    /\ sIn[3].deal_score = <<90>>
    /\ sOut = <<sIn[3], sIn[2], sIn[1]>>

(***************************************************************************)
(* Claim about the identities dedupe_listings returns, checked under       *)
(* SpecDedup.                                                              *)
(***************************************************************************)
\* the list dedupe_listings was last handed
LastDedupInput == IF dPc = "again" THEN dPrev ELSE dIn

\* the ids of the listings of a list
IdsOf(listings) == { listings[i].listing_id : i \in 1..Len(listings) }

\* C30: every listing dedupe_listings returns is one of the listings of the
\* list handed in after ensure_listing_ids, with all its fields; the ids of
\* the returned listings are the ids of those listings; and the returned
\* list is as long as there are different ids
C30_IdentitiesKept ==
    dPc \in {"deduped", "again"} =>
        /\ \A i \in 1..Len(dOut) :
               \E j \in 1..Len(LastDedupInput) :
                   dOut[i] = ensure_listing_ids(LastDedupInput)[j]
        /\ IdsOf(dOut) = IdsOf(ensure_listing_ids(LastDedupInput))
        /\ Len(dOut) = Cardinality(IdsOf(ensure_listing_ids(LastDedupInput)))

\* three listings, the first without an id and without a price, the second
\* with the id derived for the first and a price, the third with another
\* id: two are returned, and the one with the price has no condition
C30_Witness ==
    /\ dPc = "deduped"
    /\ Len(dIn) = 3
    /\ dIn[1].listing_id = <<>>
    /\ dIn[1].price = NoNumber
    /\ dIn[1].condition = <<"n">>
    /\ dIn[2].listing_id = <<"e","b",":","7">>
    /\ dIn[2].price # NoNumber
    /\ dIn[3].listing_id = <<"x">>
    /\ Len(dOut) = 2
    /\ dOut[1].listing_id = <<"e","b",":","7">>

====
